---- MODULE Spec2Model ----
(***************************************************************************)
(* World-history engine: the world graph (src/models/generation.py), the   *)
(* query gateway (src/services/world_query_service.py), the epoch systems  *)
(* (src/systems/*.py), the orchestration loop (src/narrative_engine.py),   *)
(* the simulation driver (src/services/simulation.py) and the JSON         *)
(* persistence boundary (src/utils.py, src/ioc.py).                        *)
(*                                                                         *)
(* Entity ids are naturals handed out by make_id in creation order; 0 is   *)
(* Python's None.  The entity table is a function from ids to records, so  *)
(* its DOMAIN is the set of ids and its iteration order (dict insertion    *)
(* order) is ascending id.  Names, icons and coordinates are not kept:     *)
(* no decision of the modelled code reads them.                            *)
(***************************************************************************)
EXTENDS Integers, Sequences, FiniteSets, TLC

(***************************************************************************)
(* Bounds                                                                  *)
(***************************************************************************)
\* number of epochs the driver is asked to run (target_epochs)
MaxEpochs == 5
\* number of random rolls that may succeed in one run
MaxRolls == 1
\* number of locations of the generated world that received a faction
MaxInitFactions == 2
\* number of locations the generator gives a biome
MaxLocations == 2
\* number of entities changed through a loaded entity table
MaxTouches == 1

(***************************************************************************)
(* Entity types (EntityType enum).  There is no member BOSS.               *)
(***************************************************************************)
BIOME == "Biome"
LOCATION == "Location"
RESOURCE == "Resource"
FACTION == "Faction"
BELIEF == "Belief"
GLOBAL_CONFLICT == "global_conflict"
CHARACTER == "Character"
CONFLICT == "Conflict"
EVENT == "Event"

\* EntityType.<name>: attribute access on the enum class; a name that is not
\* a member raises AttributeError
HasEntityTypeMember(name) ==
    name \in {"BIOME", "LOCATION", "RESOURCE", "METHOD", "PROBLEM", "FACTION",
              "DISPUTE_REASON", "RITUAL", "OBJECT_OF_WORSHIP", "BELIEF",
              "GLOBAL_CONFLICT", "CREATURE", "CHARACTER", "CONFLICT", "EVENT",
              "ITEM"}

None == 0

(***************************************************************************)
(* Template registries: the archetypes loaded at start-up.                 *)
(***************************************************************************)
BiomeTemplates ==
    [biome_a |-> [capacity |-> 3,
                  allowed_locations |-> <<"loc_village">>,
                  available_resources |-> <<"res_wood">>,
                  factions |-> <<"fac_orcs">>,
                  tags |-> {},
                  forbidden_neighbors |-> {"biome_b"}],
     biome_b |-> [capacity |-> 3,
                  allowed_locations |-> <<"loc_village">>,
                  available_resources |-> <<"res_wood">>,
                  factions |-> <<"fac_orcs">>,
                  tags |-> {},
                  forbidden_neighbors |-> {"biome_b"}],
     biome_sea |-> [capacity |-> 3,
                    allowed_locations |-> <<"loc_village">>,
                    available_resources |-> <<"res_wood">>,
                    factions |-> <<"fac_orcs">>,
                    tags |-> {"coastal"},
                    forbidden_neighbors |-> {}]]

LocationTemplates ==
    [loc_village |-> [capacity |-> 4,
                      limits |-> [Resource |-> 1, Faction |-> 2],
                      tags |-> {"settlement"}]]

ResourceTemplates ==
    [res_wood |-> [renewable |-> TRUE, tags |-> {"material"}],
     res_ore |-> [renewable |-> FALSE, tags |-> {"material"}]]

FactionTemplates ==
    [fac_orcs |-> [role |-> "military", tags |-> {},
                   culture |-> [aggression |-> 5, magic_affinity |-> 0,
                                collectivism |-> 0]]]

BeliefTemplates ==
    [bel_war |-> [preferred_roles |-> {"military"},
                  base_modifiers |-> [aggression |-> 2, magic_affinity |-> 15,
                                      collectivism |-> 15],
                  variations |-> <<[aggression |-> 0, magic_affinity |-> 0,
                                    collectivism |-> 0],
                                   [aggression |-> 0, magic_affinity |-> 10,
                                    collectivism |-> 0]>>]]

TraitTemplates ==
    [trait_brave |-> [modifiers |-> [aggression |-> 1, magic_affinity |-> 0,
                                     collectivism |-> 0]]]

BossTemplates ==
    [boss_dragon |-> [allowed_biomes |-> {"biome_a"}, tags |-> {"monster"}]]

TransformationRules ==
    <<[requires_tag |-> "ruins", needs_faction |-> FALSE, min_age_empty |-> 0,
       target_def |-> "loc_wild_ruins"],
      [requires_tag |-> "wild", needs_faction |-> TRUE, min_age_empty |-> 0,
       target_def |-> "loc_village"],
      [requires_tag |-> "wild", needs_faction |-> FALSE, min_age_empty |-> 0,
       target_def |-> "loc_village"]>>

Registered(reg, key) == key \in DOMAIN reg

(***************************************************************************)
(* Entity and relation records                                             *)
(***************************************************************************)
ZeroVector == [aggression |-> 0, magic_affinity |-> 0, collectivism |-> 0]

\* the keys of Entity.data that the systems read or write
EmptyData ==
    [status |-> "", outcome |-> "", participants |-> <<>>, location_id |-> None,
     reason_id |-> "", is_raid |-> FALSE, absorbed_by |-> None,
     faction_id |-> None, culture_vector |-> ZeroVector, has_culture |-> FALSE,
     role |-> "", neighbor_biomes |-> <<>>, event_type |-> "",
     initiator_belief |-> None, target_belief |-> None, has_xy |-> FALSE,
     limits_of |-> "", destroyed_in_age |-> 0, last_conflict_age |-> 0,
     cultural_tension |-> 0]

\* Entity(...): data = None is has_data = FALSE
Entity(type, definition_id, tags, capacity, parent_id, created_at, has_data, data) ==
    [type |-> type, definition_id |-> definition_id, tags |-> tags,
     capacity |-> capacity, parent_id |-> parent_id, created_at |-> created_at,
     has_data |-> has_data, data |-> data]

RelationTypeDefs ==
    [located_in |-> [from_type |-> RESOURCE, to_type |-> LOCATION],
     faction_located_in |-> [from_type |-> FACTION, to_type |-> LOCATION],
     joined |-> [from_type |-> CHARACTER, to_type |-> FACTION],
     leads |-> [from_type |-> CHARACTER, to_type |-> FACTION],
     involved_in |-> [from_type |-> FACTION, to_type |-> CONFLICT],
     resolved_as |-> [from_type |-> CONFLICT, to_type |-> EVENT],
     affected_by |-> [from_type |-> FACTION, to_type |-> EVENT],
     occurred_at |-> [from_type |-> EVENT, to_type |-> LOCATION],
     allied_with |-> [from_type |-> FACTION, to_type |-> FACTION],
     fled_to |-> [from_type |-> FACTION, to_type |-> LOCATION],
     absorbed_by |-> [from_type |-> FACTION, to_type |-> FACTION],
     expanded_to |-> [from_type |-> FACTION, to_type |-> LOCATION],
     splintered_from |-> [from_type |-> FACTION, to_type |-> FACTION],
     believes_in |-> [from_type |-> FACTION, to_type |-> BELIEF],
     opposes_belief |-> [from_type |-> BELIEF, to_type |-> BELIEF],
     part_of_global |-> [from_type |-> CONFLICT, to_type |-> GLOBAL_CONFLICT],
     active_participant |-> [from_type |-> FACTION, to_type |-> GLOBAL_CONFLICT]]

\* WorldGenerator._init_relation_types
GeneratorRelationTypes == {"located_in", "faction_located_in"}

\* NarrativeEngine._register_narrative_relation_types
NarrativeRelationTypes ==
    {"joined", "leads", "involved_in", "resolved_as", "affected_by",
     "occurred_at", "allied_with", "fled_to", "absorbed_by", "expanded_to",
     "splintered_from", "located_in", "believes_in", "opposes_belief",
     "part_of_global", "active_participant"}


(***************************************************************************)
(* State                                                                   *)
(***************************************************************************)
VARIABLES
    entities,        \* WorldGraph.entities: id -> Entity
    relations,       \* WorldGraph.relations: list of RelationInstance
    relation_types,  \* WorldGraph.relation_types: registered ids
    next_id,         \* ids handed out so far by make_id / uuid4, plus one
    age,             \* NarrativeEngine.age
    pc,              \* position of the driver inside run_simulation / evolve
    all_events,      \* evolve's all_events list (entity ids)
    history,         \* lines of history.jsonl
    target_epochs,   \* argument of run_simulation
    is_running,      \* SimulationService.is_running
    rolls,           \* random rolls that succeeded so far
    steps,           \* systems called so far in the current epoch
    exc,             \* exception propagating out of evolve ("" = none)
    last_resolve,    \* what the last resolve_conflicts call saw and did
    last_move,       \* arguments and pre-state of the last move_entity call
    disk,            \* the JSON file written by save_world_to_json
    heap,            \* object address -> Entity of the loaded World
    loaded,          \* the World rebuilt from disk: table and relations by address
    last_call,       \* the last direct call of a WorldQueryService method
    layout,          \* the SpatialLayout under construction in generate_layout
    vecs,            \* CultureVector operands and the results of their sums
    threads          \* the run_simulation calls in flight: where each thread stands

vars == <<entities, relations, relation_types, next_id, age, pc, all_events,
          history, target_epochs, is_running, rolls, steps, exc, last_resolve,
          last_move, disk, heap, loaded, last_call, layout, vecs, threads>>

(***************************************************************************)
(* Sequence helpers                                                        *)
(***************************************************************************)
Min(S) == CHOOSE x \in S : \A y \in S : x <= y

Max(S) == CHOOSE x \in S : \A y \in S : y <= x

RECURSIVE SortedSeq(_)
\* the elements of a set of ids in ascending order (dict iteration order)
SortedSeq(S) == IF S = {} THEN <<>> ELSE <<Min(S)>> \o SortedSeq(S \ {Min(S)})

Range(s) == {s[i] : i \in 1..Len(s)}

RECURSIVE FilterSeq(_, _)
\* the subsequence of s whose elements are in S
FilterSeq(s, S) ==
    IF s = <<>> THEN <<>>
    ELSE (IF s[1] \in S THEN <<s[1]>> ELSE <<>>) \o FilterSeq(Tail(s), S)

(***************************************************************************)
(* WorldQueryService: reads                                                *)
(***************************************************************************)
\* uuid-based ids: a fresh id per call
make_id(n) == n

get_entity(e, entity_id) ==
    IF entity_id = None \/ entity_id \notin DOMAIN e THEN None ELSE entity_id

\* direct children of parent_id of the given type ("" = no filter),
\* excluding those tagged inactive, in table order
get_children(e, parent_id, type_filter) ==
    IF parent_id = None THEN <<>>
    ELSE SortedSeq({i \in DOMAIN e :
            /\ e[i].parent_id = parent_id
            /\ (type_filter = "" \/ e[i].type = type_filter)
            /\ "inactive" \notin e[i].tags})

get_location_of(e, id) ==
    IF id = None \/ e[id].parent_id = None THEN None
    ELSE LET parent == get_entity(e, e[id].parent_id)
         IN IF parent # None /\ e[parent].type = LOCATION THEN parent ELSE None

RECURSIVE BiomeWalk(_, _, _)
BiomeWalk(e, current_id, depth) ==
    IF current_id = None \/ depth >= 5 THEN None
    ELSE LET parent == get_entity(e, current_id)
         IN IF parent = None THEN None
            ELSE IF e[parent].type = BIOME THEN parent
            ELSE BiomeWalk(e, e[parent].parent_id, depth + 1)

get_biome(e, location) ==
    IF location = None THEN None ELSE BiomeWalk(e, e[location].parent_id, 0)

RECURSIVE FirstBelief(_, _)
FirstBelief(r, fid) ==
    IF r = <<>> THEN None
    ELSE IF r[1].from_entity = fid /\ r[1].relation_type = "believes_in"
         THEN r[1].to_entity
         ELSE FirstBelief(Tail(r), fid)

get_belief(r, faction) == IF faction = None THEN None ELSE FirstBelief(r, faction)

(***************************************************************************)
(* RelationInstance and WorldGraph                                         *)
(***************************************************************************)
\* pydantic validates the fields of a model in declaration order
RelationInstanceFields == <<"from_entity", "to_entity", "relation_type">>

\* info.data of a field validator: the fields validated before this one
InfoData(field_name) ==
    LET idx == CHOOSE i \in 1..Len(RelationInstanceFields) :
                   RelationInstanceFields[i] = field_name
    IN {RelationInstanceFields[i] : i \in 1..(idx - 1)}

\* RelationInstance.validate_entity_types: TRUE when the validator returns v,
\* FALSE when it raises ValueError
validate_entity_types(e, v, field_name, rel_type) ==
    IF "relation_type" \notin InfoData(field_name) THEN TRUE
    ELSE e[v].type = (IF field_name = "from_entity" THEN rel_type.from_type
                      ELSE rel_type.to_type)

RelationInstance(from_entity, to_entity, relation_type) ==
    [from_entity |-> from_entity, to_entity |-> to_entity,
     relation_type |-> relation_type]

\* the world value threaded through one system call:
\*   e entities, r relations, n next id, x exception raised, ev returned list
\*   mv the arguments and the relation list before/after the last move_entity
NoMove == [called |-> FALSE]

World(e, r, n, x, ev) ==
    [e |-> e, r |-> r, n |-> n, x |-> x, ev |-> ev, mv |-> NoMove]

Raise(W, what) == [W EXCEPT !.x = what]

Returned(W, id) == [W EXCEPT !.ev = Append(W.ev, id)]

\* the statement F that follows a call: skipped while an exception propagates
Then(W, F(_)) == IF W.x # "" THEN W ELSE F(W)

\* WorldGraph.add_entity / WorldQueryService.add_entity: self.entities[id] =
\* entity, an insert or an overwrite
add_entity(W, id, rec) ==
    [W EXCEPT !.e = (id :> rec) @@ W.e,
              !.n = IF id >= W.n THEN id + 1 ELSE W.n]

\* WorldGraph.add_relation
graph_add_relation(W, from_entity, to_entity, relation_type_id) ==
    LET rel_type == RelationTypeDefs[relation_type_id]
    IN IF /\ validate_entity_types(W.e, from_entity, "from_entity", rel_type)
          /\ validate_entity_types(W.e, to_entity, "to_entity", rel_type)
       THEN [W EXCEPT !.r = Append(W.r,
                RelationInstance(from_entity, to_entity, relation_type_id))]
       ELSE Raise(W, "ValueError")

\* an add_relation without the registry check: the graph's lookup raises
add_relation_unguarded(W, from_e, to_e, rel_type_id) ==
    IF from_e = None \/ to_e = None THEN W
    ELSE IF rel_type_id \notin relation_types THEN Raise(W, "KeyError")
    ELSE graph_add_relation(W, from_e, to_e, rel_type_id)

\* WorldQueryService.add_relation
add_relation(W, from_e, to_e, rel_type_id) ==
    IF from_e = None \/ to_e = None THEN W
    ELSE IF rel_type_id \notin relation_types THEN W
    ELSE graph_add_relation(W, from_e, to_e, rel_type_id)

RECURSIVE AddRelations(_, _, _)
\* add_relation for each (from, to, type) triple in order, stopping at a raise
AddRelations(W, triples, k) ==
    IF k > Len(triples) \/ W.x # "" THEN W
    ELSE AddRelations(add_relation(W, triples[k][1], triples[k][2], triples[k][3]),
                      triples, k + 1)


(***************************************************************************)
(* SpatialManager and WorldQueryService: writes                            *)
(***************************************************************************)
\* SpatialManager.assign_slot reads parent.data when parent.capacity is falsy
\* and sib.data of every sibling but the entity itself; .get on None raises
assign_slot_raises(e, entity, parent, siblings) ==
    \/ (e[parent].capacity = 0 /\ ~e[parent].has_data)
    \/ \E k \in 1..Len(siblings) :
          siblings[k] # entity /\ ~e[siblings[k]].has_data

\* WorldQueryService._update_absolute_coordinates reads parent.data
update_absolute_coordinates_raises(e, parent) == ~e[parent].has_data

\* assign_slot, entity.data.update(spatial_data), _update_absolute_coordinates
place_entity(W, entity, parent) ==
    LET siblings == get_children(W.e, parent, W.e[entity].type)
    IN IF assign_slot_raises(W.e, entity, parent, siblings)
       THEN Raise(W, "AttributeError")
       ELSE LET W1 == [W EXCEPT !.e[entity].has_data = TRUE]
            IN IF update_absolute_coordinates_raises(W1.e, parent)
               THEN Raise(W1, "AttributeError")
               ELSE W1

\* a move_entity that strips nothing before it re-adds the relation
move_entity_keeps_all(r, entity, relation_type) == r

\* the relations kept by move_entity: all but entity's relations of that type
move_entity_kept(r, entity, relation_type) ==
    SelectSeq(r, LAMBDA rel :
        ~(rel.from_entity = entity /\ rel.relation_type = relation_type))

\* WorldQueryService.move_entity
move_entity(W, entity, new_parent, relation_type) ==
    IF entity = None \/ new_parent = None THEN W
    ELSE LET W1 == [W EXCEPT !.r = move_entity_kept(W.r, entity, relation_type),
                             !.e[entity].parent_id = new_parent]
             W2 == add_relation(W1, entity, new_parent, relation_type)
             W3 == [W2 EXCEPT !.mv = [called |-> TRUE, entity |-> entity,
                                      new_parent |-> new_parent,
                                      relation_type |-> relation_type,
                                      before |-> W.r, after |-> W2.r,
                                      parent_id |-> W2.e[entity].parent_id]]
         IN IF W3.x # "" THEN W3 ELSE place_entity(W3, entity, new_parent)

RECURSIVE FirstLocation(_, _)
\* the first entity of the list that is a Location
FirstLocation(e, ents) ==
    IF ents = <<>> THEN None
    ELSE IF e[ents[1]].type = LOCATION THEN ents[1]
    ELSE FirstLocation(e, Tail(ents))

\* an event_location that looks at the secondary entities before the primary
event_location_secondary_first(e, explicit, primary_entity, secondary_entities) ==
    IF explicit # None THEN explicit
    ELSE IF FirstLocation(e, secondary_entities) # None
    THEN FirstLocation(e, secondary_entities)
    ELSE IF primary_entity = None THEN None
    ELSE IF e[primary_entity].type = LOCATION THEN primary_entity
    ELSE get_location_of(e, primary_entity)

\* the location register_event stores in data.location_id (None = unset)
event_location(e, explicit, primary_entity, secondary_entities) ==
    LET from_primary ==
            IF explicit # None THEN explicit
            ELSE IF primary_entity = None THEN None
            ELSE IF e[primary_entity].type = LOCATION THEN primary_entity
            ELSE get_location_of(e, primary_entity)
    IN IF from_primary # None THEN from_primary
       ELSE FirstLocation(e, secondary_entities)

\* the relation type register_event links a participant with
participant_relation(e, entity) ==
    IF e[entity].type = FACTION THEN "affected_by" ELSE "occurred_at"

\* a register_event that links the participants to an event it never stores
register_event_unstored(W, event_type, at_age, primary_entity, secondary_entities, data) ==
    LET event_id == make_id(W.n)
        participants ==
            (IF primary_entity # None THEN <<primary_entity>> ELSE <<>>)
            \o SelectSeq(secondary_entities, LAMBDA x : x # None)
        triples == [k \in 1..Len(participants) |->
                       <<participants[k], event_id,
                         participant_relation(W.e, participants[k])>>]
    IN AddRelations([W EXCEPT !.n = event_id + 1], triples, 1)

\* WorldQueryService.register_event; the new event gets id W.n
register_event(W, event_type, at_age, primary_entity, secondary_entities, data) ==
    LET event_id == make_id(W.n)
        location_id == event_location(W.e, data.location_id, primary_entity,
                                      secondary_entities)
        event == Entity(EVENT, "sys_event", {}, 0, None, at_age, TRUE,
                        [data EXCEPT !.event_type = event_type,
                                     !.location_id = location_id])
        W1 == add_entity(W, event_id, event)
        participants ==
            (IF primary_entity # None THEN <<primary_entity>> ELSE <<>>)
            \o SelectSeq(secondary_entities, LAMBDA x : x # None)
        triples == [k \in 1..Len(participants) |->
                       <<participants[k], event_id,
                         participant_relation(W.e, participants[k])>>]
    IN AddRelations(W1, triples, 1)


(***************************************************************************)
(* Random choices                                                          *)
(***************************************************************************)
RECURSIVE Arrangements(_, _)
\* the sequences of k distinct elements of S (random.sample, random.shuffle)
Arrangements(S, k) ==
    IF k = 0 THEN {<<>>}
    ELSE UNION {{<<x>> \o t : t \in Arrangements(S \ {x}, k - 1)} : x \in S}

ArrangementsUpTo(S, k) == UNION {Arrangements(S, j) : j \in 0..k}

RECURSIVE SubsetsUpTo(_, _)
\* the subsets of S with at most k elements: the entities whose roll succeeds
SubsetsUpTo(S, k) ==
    IF k = 0 THEN {{}}
    ELSE LET smaller == SubsetsUpTo(S, k - 1)
         IN smaller \cup {T \cup {x} : T \in smaller, x \in S}

AddTags(W, id, tags) == [W EXCEPT !.e[id].tags = @ \cup tags]

DiscardTags(W, id, tags) == [W EXCEPT !.e[id].tags = @ \ tags]

OfType(e, type) == {i \in DOMAIN e : e[i].type = type}

\* events.append(self.qs.register_event(...)): the new event is returned
emit(W, event_type, at_age, primary_entity, secondary_entities, data) ==
    Then(register_event(W, event_type, at_age, primary_entity, secondary_entities,
                        data),
         LAMBDA V : Returned(V, make_id(W.n)))

\* [x] if x else []
Opt(x) == IF x # None THEN <<x>> ELSE <<>>

\* graph.relations = [r for r in graph.relations if not (r.from_entity.id ==
\* entity.id and r.relation_type.id == relation_type)]
remove_relations(W, entity, relation_type) ==
    [W EXCEPT !.r = SelectSeq(W.r, LAMBDA rel :
        ~(rel.from_entity = entity /\ rel.relation_type = relation_type))]

(***************************************************************************)
(* LifecycleSystem                                                         *)
(***************************************************************************)
\* the leaders process_leader_decay rolls for
decay_leaders(e) == {i \in OfType(e, CHARACTER) : "inactive" \notin e[i].tags}

\* one leader dies: tagged, its leads relation stripped, leader_death emitted
leader_dies(W, leader, at_age) ==
    emit(remove_relations(AddTags(W, leader, {"inactive", "dead"}), leader, "leads"),
         "leader_death", at_age, leader,
         Opt(get_entity(W.e, W.e[leader].data.faction_id)), EmptyData)

RECURSIVE process_leader_decay(_, _, _, _)
\* LifecycleSystem.process_leader_decay: leaders is the list built before the
\* loop, dying the leaders whose roll is under the chance
process_leader_decay(W, leaders, dying, at_age) ==
    IF leaders = <<>> \/ W.x # "" THEN W
    ELSE process_leader_decay(
            IF leaders[1] \in dying THEN leader_dies(W, leaders[1], at_age) ELSE W,
            Tail(leaders), dying, at_age)

decay_resources(e) == {i \in OfType(e, RESOURCE) : "depleted" \notin e[i].tags}

is_renewable(definition_id) ==
    IF Registered(ResourceTemplates, definition_id)
    THEN ResourceTemplates[definition_id].renewable ELSE FALSE

resource_depletes(W, res, at_age) ==
    emit(AddTags(W, res, IF is_renewable(W.e[res].definition_id)
                         THEN {"depleted"} ELSE {"depleted", "inactive"}),
         "resource_depleted", at_age, res, Opt(get_location_of(W.e, res)), EmptyData)

RECURSIVE process_resource_decay(_, _, _, _)
\* LifecycleSystem.process_resource_decay
process_resource_decay(W, resources, depleting, at_age) ==
    IF resources = <<>> \/ W.x # "" THEN W
    ELSE process_resource_decay(
            IF resources[1] \in depleting
            THEN resource_depletes(W, resources[1], at_age) ELSE W,
            Tail(resources), depleting, at_age)

\* a regrowth that takes every depleted resource
regrowth_of_all(e) == {i \in OfType(e, RESOURCE) : "depleted" \in e[i].tags}

regrowth_resources(e) ==
    {i \in OfType(e, RESOURCE) :
        "depleted" \in e[i].tags /\ "inactive" \notin e[i].tags}

resource_regrows(W, res, at_age) ==
    emit(DiscardTags(W, res, {"depleted"}),
         "resource_regrowth", at_age, res, Opt(get_location_of(W.e, res)), EmptyData)

RECURSIVE process_resource_regrowth(_, _, _, _)
\* LifecycleSystem.process_resource_regrowth
process_resource_regrowth(W, resources, regrowing, at_age) ==
    IF resources = <<>> \/ W.x # "" THEN W
    ELSE process_resource_regrowth(
            IF resources[1] \in regrowing
            THEN resource_regrows(W, resources[1], at_age) ELSE W,
            Tail(resources), regrowing, at_age)

\* limits.get(key, default) of a location template
template_limit(definition_id, key, default) ==
    IF ~Registered(LocationTemplates, definition_id) THEN default
    ELSE LET limits == LocationTemplates[definition_id].limits
         IN IF key \in DOMAIN limits THEN limits[key] ELSE default

\* the new resource of process_new_resources: created, linked, announced
add_resource(W, loc, res_def, at_age) ==
    Then(add_relation(
            add_entity(W, make_id(W.n),
                Entity(RESOURCE, res_def,
                       ResourceTemplates[res_def].tags \cup {"common"},
                       0, loc, at_age, FALSE, EmptyData)),
            make_id(W.n), loc, "located_in"),
         LAMBDA V : emit(V, "resource_discovered", at_age, make_id(W.n), <<loc>>,
                         EmptyData))

\* the resource pool of a biome, empty when the biome is unknown
resource_pool(e, biome) ==
    IF biome = None \/ ~Registered(BiomeTemplates, e[biome].definition_id) THEN <<>>
    ELSE BiomeTemplates[e[biome].definition_id].available_resources

\* one location of process_new_resources whose roll succeeded
new_resource_at(W, loc, at_age) ==
    LET def == W.e[loc].definition_id
        full == /\ Registered(LocationTemplates, def)
                /\ Len(get_children(W.e, loc, RESOURCE))
                      >= template_limit(def, "Resource", 1)
        pool == resource_pool(W.e, get_biome(W.e, loc))
    IN IF full \/ pool = <<>> THEN W
       ELSE IF ~Registered(ResourceTemplates, pool[1]) THEN W
       ELSE add_resource(W, loc, pool[1], at_age)

RECURSIVE process_new_resources(_, _, _, _)
\* LifecycleSystem.process_new_resources
process_new_resources(W, locations, lucky, at_age) ==
    IF locations = <<>> \/ W.x # "" THEN W
    ELSE process_new_resources(
            IF locations[1] \in lucky
            THEN new_resource_at(W, locations[1], at_age) ELSE W,
            Tail(locations), lucky, at_age)

\* the Faction limit process_overcrowding uses for a location
overcrowding_limit(e, loc) ==
    IF e[loc].has_data /\ e[loc].data.limits_of # ""
    THEN template_limit(e[loc].data.limits_of, "Faction", 2)
    ELSE template_limit(e[loc].definition_id, "Faction", 2)

overcrowding_active(e, loc) ==
    SelectSeq(get_children(e, loc, FACTION), LAMBDA f :
        "absorbed" \notin e[f].tags /\ "dead" \notin e[f].tags)

\* a location over its limit: tagged, and one faction starves when the roll hits
famine(W, loc, victim, active, at_age) ==
    IF victim = None \/ victim \notin Range(active)
    THEN AddTags(W, loc, {"overcrowded"})
    ELSE emit(AddTags(AddTags(W, loc, {"overcrowded"}), victim, {"dead", "starved"}),
              "famine", at_age, loc, <<victim>>, EmptyData)

\* a process_overcrowding that never takes the tag back
overcrowding_at_sticky(W, loc, victim, at_age) ==
    IF Len(overcrowding_active(W.e, loc)) > overcrowding_limit(W.e, loc)
    THEN famine([W EXCEPT !.e[loc].has_data = TRUE], loc, victim,
                overcrowding_active(W.e, loc), at_age)
    ELSE [W EXCEPT !.e[loc].has_data = TRUE]

\* one location of process_overcrowding; victim = None: the famine roll failed
overcrowding_at(W, loc, victim, at_age) ==
    IF Len(overcrowding_active(W.e, loc)) > overcrowding_limit(W.e, loc)
    THEN famine([W EXCEPT !.e[loc].has_data = TRUE], loc, victim,
                overcrowding_active(W.e, loc), at_age)
    ELSE DiscardTags([W EXCEPT !.e[loc].has_data = TRUE], loc, {"overcrowded"})

RECURSIVE process_overcrowding(_, _, _, _)
\* LifecycleSystem.process_overcrowding; victims are the factions that starve
process_overcrowding(W, locations, victims, at_age) ==
    IF locations = <<>> \/ W.x # "" THEN W
    ELSE LET loc == locations[1]
             here == {v \in victims : W.e[v].parent_id = loc}
             victim == IF here = {} THEN None ELSE Min(here)
         IN process_overcrowding(overcrowding_at(W, loc, victim, at_age),
                                 Tail(locations), victims, at_age)

(***************************************************************************)
(* CultureVector                                                           *)
(***************************************************************************)
Axes == {"aggression", "magic_affinity", "collectivism"}

\* CultureVector axes are validated to lie in [-20, 20]
AxisMin == 0 - 20
AxisMax == 20

VectorValid(v) == \A k \in Axes : v[k] >= AxisMin /\ v[k] <= AxisMax

\* CultureVector.__add__ (the sum is validated by the constructor)
VectorAdd(a, b) == [k \in Axes |-> a[k] + b[k]]

(***************************************************************************)
(* BeliefSystem                                                            *)
(***************************************************************************)
\* the factions _genesis_phase may pick as prophets
genesis_candidates(W) ==
    {f \in OfType(W.e, FACTION) :
        /\ "absorbed" \notin W.e[f].tags
        /\ "inactive" \notin W.e[f].tags
        /\ get_belief(W.r, f) = None}

\* the templates a prophet of that role can found: by role, else all of them
suitable_templates(role) ==
    LET by_role == {t \in DOMAIN BeliefTemplates :
                       role \in BeliefTemplates[t].preferred_roles}
    IN IF by_role # {} THEN by_role ELSE DOMAIN BeliefTemplates

\* final_modifiers of _genesis_phase: the base of the template, plus the
\* chosen variation when the template has variations
final_modifiers(tmpl, variation) ==
    IF BeliefTemplates[tmpl].variations = <<>>
    THEN BeliefTemplates[tmpl].base_modifiers
    ELSE VectorAdd(BeliefTemplates[tmpl].base_modifiers,
                   BeliefTemplates[tmpl].variations[variation])

\* one prophet of _genesis_phase founds the belief of template tmpl; the sum
\* of the vectors is built by the CultureVector constructor, which validates
found_belief(W, prophet, tmpl, variation, at_age) ==
    IF ~VectorValid(final_modifiers(tmpl, variation)) THEN Raise(W, "ValidationError")
    ELSE
    Then(add_relation(
            add_entity(W, make_id(W.n),
                Entity(BELIEF, tmpl, {}, 0, None, at_age, TRUE,
                       [EmptyData EXCEPT
                           !.culture_vector = final_modifiers(tmpl, variation),
                           !.has_culture = TRUE])),
            prophet, make_id(W.n), "believes_in"),
         LAMBDA V : emit(V, "religion_founded", at_age, make_id(W.n), <<prophet>>,
                         EmptyData))

RECURSIVE genesis_phase(_, _, _, _)
\* BeliefSystem._genesis_phase over the sampled prophets and the variation
\* random.choice picks for each
genesis_phase(W, prophets, variants, at_age) ==
    IF prophets = <<>> \/ W.x # "" THEN W
    ELSE LET prophet == prophets[1]
             role == IF W.e[prophet].data.role = "" THEN "default"
                     ELSE W.e[prophet].data.role
             pool == suitable_templates(role)
         IN genesis_phase(
                IF pool = {} THEN W
                ELSE found_belief(W, prophet, CHOOSE t \in pool : TRUE, variants[1],
                                  at_age),
                Tail(prophets), Tail(variants), at_age)

\* the neighbours _spread_phase looks at: the factions of the same location,
\* then those of the other locations of the biome
spread_neighbors(e, location) ==
    LET biome == get_biome(e, location)
        others == IF biome = None THEN <<>>
                  ELSE SelectSeq(get_children(e, biome, LOCATION),
                                 LAMBDA l : l # location)
        RECURSIVE Collect(_)
        Collect(locs) == IF locs = <<>> THEN <<>>
                         ELSE get_children(e, locs[1], FACTION) \o Collect(Tail(locs))
    IN get_children(e, location, FACTION) \o Collect(others)

\* belief_pressure, doubled to stay in the integers: 1.0 is 2, 0.5 is 1
pressure_of(W, faction, neighbors, belief) ==
    LET RECURSIVE Sum(_)
        Sum(ns) ==
            IF ns = <<>> THEN 0
            ELSE (IF ns[1] # faction /\ get_belief(W.r, ns[1]) = belief
                  THEN 2 + (IF "allied" \in W.e[ns[1]].tags THEN 1 ELSE 0)
                  ELSE 0) + Sum(Tail(ns))
    IN Sum(neighbors)

\* the keys of belief_pressure in insertion order
pressing_beliefs(W, faction, neighbors) ==
    LET RECURSIVE Keys(_, _)
        Keys(ns, seen) ==
            IF ns = <<>> THEN <<>>
            ELSE LET b == IF ns[1] = faction THEN None ELSE get_belief(W.r, ns[1])
                 IN IF b = None \/ b \in seen THEN Keys(Tail(ns), seen)
                    ELSE <<b>> \o Keys(Tail(ns), seen \cup {b})
    IN Keys(neighbors, {})

\* a _change_faith that keeps the old relation
change_faith_keeping(W, faction, new_belief) ==
    add_relation(W, faction, new_belief, "believes_in")

\* BeliefSystem._change_faith
change_faith(W, faction, new_belief) ==
    add_relation(remove_relations(W, faction, "believes_in"),
                 faction, new_belief, "believes_in")

RECURSIVE total_pressure(_, _, _, _)
\* sum(belief_pressure.values()), doubled
total_pressure(W, faction, neighbors, keys) ==
    IF keys = <<>> THEN 0
    ELSE pressure_of(W, faction, neighbors, keys[1])
         + total_pressure(W, faction, neighbors, Tail(keys))

\* max(belief_pressure, key=belief_pressure.get): the first key of the
\* highest pressure
dominant_belief(W, faction, neighbors, keys) ==
    keys[CHOOSE i \in 1..Len(keys) :
            /\ \A j \in 1..Len(keys) :
                  pressure_of(W, faction, neighbors, keys[j])
                      <= pressure_of(W, faction, neighbors, keys[i])
            /\ \A j \in 1..(i - 1) :
                  pressure_of(W, faction, neighbors, keys[j])
                      < pressure_of(W, faction, neighbors, keys[i])]

\* the conversion or adoption at the end of _spread_phase's loop body
convert(W, faction, current_belief, new_belief, at_age) ==
    IF current_belief # None /\ current_belief # new_belief
    THEN Then(change_faith(W, faction, new_belief),
              LAMBDA V : emit(V, "religion_conversion", at_age, faction,
                              <<new_belief>>, EmptyData))
    ELSE IF current_belief = None
    THEN Then(add_relation(W, faction, new_belief, "believes_in"),
              LAMBDA V : emit(V, "religion_adopted", at_age, faction,
                              <<new_belief>>, EmptyData))
    ELSE W

\* the pressure test of _spread_phase: total pressure above 2.0
spread_among(W, faction, neighbors, keys, at_age) ==
    IF keys = <<>> \/ total_pressure(W, faction, neighbors, keys) <= 4 THEN W
    ELSE convert(W, faction, get_belief(W.r, faction),
                 get_entity(W.e, dominant_belief(W, faction, neighbors, keys)),
                 at_age)

spread_in(W, faction, neighbors, at_age) ==
    spread_among(W, faction, neighbors, pressing_beliefs(W, faction, neighbors),
                 at_age)

\* one faction of _spread_phase that passed its resistance roll
spread_to(W, faction, at_age) ==
    IF get_location_of(W.e, faction) = None THEN W
    ELSE spread_in(W, faction,
                   spread_neighbors(W.e, get_location_of(W.e, faction)), at_age)

RECURSIVE spread_phase(_, _, _)
\* BeliefSystem._spread_phase over the factions, in shuffled order, whose
\* resistance roll let them through
spread_phase(W, open, at_age) ==
    IF open = <<>> \/ W.x # "" THEN W
    ELSE spread_phase(spread_to(W, open[1], at_age), Tail(open), at_age)

spread_factions(e) == {f \in OfType(e, FACTION) : "absorbed" \notin e[f].tags}

\* BeliefSystem.process_beliefs
process_beliefs(W, prophets, variants, open, at_age) ==
    spread_phase(IF Cardinality(OfType(W.e, BELIEF)) < 2
                 THEN genesis_phase(W, prophets, variants, at_age) ELSE W,
                 open, at_age)

\* the variations random.choice can pick, one for each prophet
variation_rolls(prophets) ==
    [1..Len(prophets) ->
        1..Max({1} \cup {Len(BeliefTemplates[t].variations) : t \in DOMAIN BeliefTemplates})]

\* the samples random.sample can return in _genesis_phase
genesis_samples(W) ==
    LET beliefs == OfType(W.e, BELIEF)
        candidates == genesis_candidates(W)
    IN IF Cardinality(beliefs) >= 2 THEN {<<>>}
       ELSE Arrangements(candidates,
                Min({Cardinality(candidates), 2 - Cardinality(beliefs)}))

(***************************************************************************)
(* NarrativeEngine._ensure_leaders                                         *)
(***************************************************************************)
has_leader(r, faction) ==
    \E k \in 1..Len(r) :
        r[k].to_entity = faction /\ r[k].relation_type = "leads"

\* the vector of the sampled traits (one trait is registered)
leader_vector == TraitTemplates[CHOOSE t \in DOMAIN TraitTemplates : TRUE].modifiers

RECURSIVE ensure_leaders(_, _, _)
ensure_leaders(W, factions, at_age) ==
    IF DOMAIN TraitTemplates = {} \/ factions = <<>> \/ W.x # "" THEN W
    ELSE LET faction == factions[1]
             leader == make_id(W.n)
             W1 == add_entity(W, leader,
                      Entity(CHARACTER, "char_leader", {}, 0,
                             W.e[faction].parent_id, at_age, TRUE,
                             [EmptyData EXCEPT !.faction_id = faction,
                                               !.role = "leader",
                                               !.culture_vector = leader_vector,
                                               !.has_culture = TRUE]))
         IN ensure_leaders(
                IF has_leader(W.r, faction) THEN W
                ELSE add_relation(W1, leader, faction, "leads"),
                Tail(factions), at_age)

(***************************************************************************)
(* ConflictSystem: tension                                                 *)
(***************************************************************************)
Abs(x) == IF x < 0 THEN 0 - x ELSE x

\* weight of an axis in hundredths; axes without a weight count 0.1
AxisWeight(weights, k) == IF k \in DOMAIN weights THEN weights[k] ELSE 10

DeadZone == 2

\* CultureVector.distance_to in hundredths (no taboo or revered set is used
\* by the registered templates)
distance_to(a, b, weights) ==
    LET term(k) == IF Abs(a[k] - b[k]) > DeadZone
                   THEN (Abs(a[k] - b[k]) - DeadZone) * AxisWeight(weights, k)
                   ELSE 0
        tension == term("aggression") + term("magic_affinity") + term("collectivism")
    IN IF tension < 0 THEN 0 ELSE tension

\* ConflictSystem._find_leader compares str(r.relation_type) with "leads";
\* the string of a RelationType model is its field dump, never "leads"
RelationTypeStr(relation_type_id) == "id='" \o relation_type_id \o "' ..."

find_leader(W, faction) ==
    LET hits == {k \in 1..Len(W.r) :
                    /\ W.r[k].to_entity = faction
                    /\ RelationTypeStr(W.r[k].relation_type) = "leads"
                    /\ "dead" \notin W.e[W.r[k].from_entity].tags}
    IN IF hits = {} THEN None ELSE W.r[Min(hits)].from_entity

\* final_culture = final_culture + CultureVector(**other.data["culture_vector"])
\* when the other entity exists and carries a culture vector
add_culture(W, culture, other) ==
    IF other # None /\ W.e[other].data.has_culture
    THEN VectorAdd(culture, W.e[other].data.culture_vector)
    ELSE culture

\* ConflictSystem._get_effective_culture: base + belief + leader
get_effective_culture(W, faction) ==
    add_culture(W,
        add_culture(W,
            IF W.e[faction].data.has_culture
            THEN W.e[faction].data.culture_vector ELSE ZeroVector,
            get_belief(W.r, faction)),
        find_leader(W, faction))

active_global_wars(e) ==
    SortedSeq({g \in OfType(e, GLOBAL_CONFLICT) : e[g].data.status = "active"})

\* ConflictSystem._get_belief_tension_modifier in hundredths
get_belief_tension_modifier(W, f1, f2, active_wars) ==
    LET b1 == get_belief(W.r, f1)
        b2 == get_belief(W.r, f2)
    IN IF b1 = None \/ b2 = None THEN 100
       ELSE IF b1 = b2 THEN 50
       ELSE IF \E k \in 1..Len(active_wars) :
                  LET init == W.e[active_wars[k]].data.initiator_belief
                      target == W.e[active_wars[k]].data.target_belief
                  IN (b1 = init /\ b2 = target) \/ (b1 = target /\ b2 = init)
            THEN 2000
       ELSE 120

TensionWeights == [aggression |-> 20, magic_affinity |-> 10, collectivism |-> 10]

\* the aggression bonus of _calculate_cultural_tension in hundredths
aggression_bonus(total_aggression) ==
    IF total_aggression > 5 THEN total_aggression * 5 ELSE 0

\* the tension of two effective cultures in hundredths:
\* max(0.1, min(10.0, base_tension + 1.0))
final_tension(c1, c2) ==
    Max({10, Min({1000, distance_to(c1, c2, TensionWeights)
                          + aggression_bonus(c1.aggression + c2.aggression) + 100})})

\* ConflictSystem._calculate_cultural_tension in ten-thousandths
calculate_cultural_tension(W, f1, f2, active_wars) ==
    final_tension(get_effective_culture(W, f1), get_effective_culture(W, f2))
        * get_belief_tension_modifier(W, f1, f2, active_wars)

\* tension >= 10.0
CrusadeTension == 100000
\* base_chance * tension >= 1.0: the roll cannot fail
CertainTension == 40000

determine_dispute_reason(W, factions, loc) ==
    IF get_children(W.e, loc, RESOURCE) # <<>> THEN "res_conflict"
    ELSE IF \E k \in 1..Len(factions) :
               {"power", "imperial"} \cap W.e[factions[k]].tags # {}
         THEN "power_struggle"
    ELSE "ideological"

(***************************************************************************)
(* ConflictSystem: spawning                                                *)
(***************************************************************************)
\* ConflictSystem._create_conflict_entity; the conflict gets id W.n, tension
\* is in ten-thousandths
create_conflict_entity(W, f1, f2, loc, reason, at_age, tension) ==
    LET conflict == make_id(W.n)
        W1 == add_entity(W, conflict,
                 Entity(CONFLICT, "conflict_" \o reason, {}, 0, None, at_age, TRUE,
                        [EmptyData EXCEPT !.participants = <<f1, f2>>,
                                          !.location_id = loc,
                                          !.reason_id = reason,
                                          !.status = "active",
                                          !.cultural_tension = tension]))
    IN AddRelations(W1, <<<<f1, conflict, "involved_in">>,
                          <<f2, conflict, "involved_in">>>>, 1)

\* a _spawn_religious_wars that does not look for an active global war
spawn_religious_war_unchecked(W, attacker, defender, at_age) ==
    LET beliefs == OfType(W.e, BELIEF)
    IN IF Cardinality(beliefs) < 2 THEN W
       ELSE LET global_war == make_id(W.n)
                W1 == add_entity(W, global_war,
                         Entity(GLOBAL_CONFLICT, "global_religious_war", {}, 0,
                                None, at_age, TRUE,
                                [EmptyData EXCEPT
                                    !.status = "active",
                                    !.initiator_belief = attacker,
                                    !.target_belief = defender,
                                    !.participants = <<attacker, defender>>]))
                W2 == AddRelations(W1, <<<<attacker, global_war, "involved_in">>,
                                         <<defender, global_war, "involved_in">>>>, 1)
                event_id == W2.n
                W3 == IF W2.x # "" THEN W2
                      ELSE register_event(W2, "global_war_start", at_age, global_war,
                                          <<attacker, defender>>, EmptyData)
            IN IF W3.x # "" THEN W3 ELSE Returned(W3, event_id)

\* ConflictSystem._spawn_religious_wars after the 5% roll succeeded
spawn_religious_war(W, attacker, defender, at_age) ==
    LET beliefs == OfType(W.e, BELIEF)
    IN IF Cardinality(beliefs) < 2 \/ active_global_wars(W.e) # <<>> THEN W
       ELSE LET global_war == make_id(W.n)
                W1 == add_entity(W, global_war,
                         Entity(GLOBAL_CONFLICT, "global_religious_war", {}, 0,
                                None, at_age, TRUE,
                                [EmptyData EXCEPT
                                    !.status = "active",
                                    !.initiator_belief = attacker,
                                    !.target_belief = defender,
                                    !.participants = <<attacker, defender>>]))
                W2 == AddRelations(W1, <<<<attacker, global_war, "involved_in">>,
                                         <<defender, global_war, "involved_in">>>>, 1)
                event_id == W2.n
                W3 == IF W2.x # "" THEN W2
                      ELSE register_event(W2, "global_war_start", at_age, global_war,
                                          <<attacker, defender>>, EmptyData)
            IN IF W3.x # "" THEN W3 ELSE Returned(W3, event_id)

CivilWarPeriod == 20

\* tension=5.0
CivilWarTension == 50000

\* one absorbed faction of _spawn_civil_wars whose roll succeeded
rebel(W, f, at_age) ==
    LET W1 == AddTags(DiscardTags(W, f, {"absorbed"}), f, {"rebel"})
        parent_loc == get_location_of(W1.e, f)
        overlord == get_entity(W1.e, W1.e[f].data.absorbed_by)
    IN IF parent_loc = None THEN W1
       ELSE IF overlord # None /\ W1.e[overlord].parent_id = W1.e[f].parent_id
       THEN LET conflict == W1.n
                W2 == create_conflict_entity(W1, f, overlord, parent_loc,
                                             "civil_war", at_age, CivilWarTension)
            IN IF W2.x # "" THEN W2 ELSE Returned(W2, conflict)
       ELSE W1

civil_war_candidates(e) ==
    {f \in OfType(e, FACTION) : "absorbed" \in e[f].tags}

RECURSIVE spawn_civil_wars(_, _, _, _)
\* ConflictSystem._spawn_civil_wars
spawn_civil_wars(W, absorbed, rebels, at_age) ==
    IF at_age % CivilWarPeriod # 0 \/ absorbed = <<>> \/ W.x # "" THEN W
    ELSE spawn_civil_wars(
            IF absorbed[1] \in rebels THEN rebel(W, absorbed[1], at_age) ELSE W,
            Tail(absorbed), rebels, at_age)

\* the factions of a location that _spawn_political_conflicts pairs up
political_factions(e, loc) ==
    SelectSeq(get_children(e, loc, FACTION), LAMBDA f :
        "absorbed" \notin e[f].tags /\ "fled" \notin e[f].tags)

\* a _spawn_political_conflicts that skips no pair
active_pairs_ignored(W) == {}

\* the participant sets of the active conflicts that have an involved_in link
active_pairs(W) ==
    {Range(W.e[W.r[k].to_entity].data.participants) :
        k \in {j \in 1..Len(W.r) :
                  /\ W.r[j].relation_type = "involved_in"
                  /\ W.e[W.r[j].to_entity].type = CONFLICT
                  /\ W.e[W.r[j].to_entity].data.status = "active"
                  /\ Len(W.e[W.r[j].to_entity].data.participants) >= 2}}

RECURSIVE Combinations(_)
\* itertools.combinations(s, 2) in its order
Combinations(s) ==
    IF Len(s) < 2 THEN <<>>
    ELSE [k \in 1..(Len(s) - 1) |-> <<s[1], s[k + 1]>>] \o Combinations(Tail(s))

\* one pair of _spawn_political_conflicts whose roll succeeded
spawn_political_conflict(W, f1, f2, loc, wars, at_age) ==
    LET tension == calculate_cultural_tension(W, f1, f2, wars)
        crusade == tension >= CrusadeTension
        conflict == make_id(W.n)
    IN Then(Then(create_conflict_entity(W, f1, f2, loc,
                    IF crusade THEN "religious_crusade"
                    ELSE determine_dispute_reason(W, <<f1, f2>>, loc),
                    at_age, tension),
                 LAMBDA V : IF crusade /\ wars # <<>>
                            THEN add_relation(V, conflict, wars[1], "part_of_global")
                            ELSE V),
            LAMBDA V : Returned(V, conflict))

RECURSIVE political_pairs(_, _, _, _, _, _, _)
political_pairs(W, pairs, active, loc, wars, lucky, at_age) ==
    IF pairs = <<>> \/ W.x # "" THEN W
    ELSE LET f1 == pairs[1][1]
             f2 == pairs[1][2]
             culture_ok == /\ VectorValid(get_effective_culture(W, f1))
                           /\ VectorValid(get_effective_culture(W, f2))
             spawns == \/ calculate_cultural_tension(W, f1, f2, wars) >= CertainTension
                       \/ {f1, f2} \in lucky
         IN political_pairs(
                IF {f1, f2} \in active THEN W
                ELSE IF ~culture_ok THEN Raise(W, "ValidationError")
                ELSE IF spawns
                THEN spawn_political_conflict(W, f1, f2, loc, wars, at_age)
                ELSE W,
                Tail(pairs), active, loc, wars, lucky, at_age)

RECURSIVE spawn_political_conflicts(_, _, _, _, _)
\* ConflictSystem._spawn_political_conflicts; lucky are the pairs whose roll
\* is under the chance, wars the global wars cached before the loop
spawn_political_conflicts(W, locations, wars, lucky, at_age) ==
    IF locations = <<>> \/ W.x # "" THEN W
    ELSE LET loc == locations[1]
             factions_in_loc == political_factions(W.e, loc)
         IN spawn_political_conflicts(
                IF Len(factions_in_loc) < 2 THEN W
                ELSE political_pairs(W, Combinations(factions_in_loc),
                                     active_pairs(W), loc, wars, lucky, at_age),
                Tail(locations), wars, lucky, at_age)

\* the pairs whose spawn depends on a roll that can fail
political_rolls(W) ==
    LET wars == active_global_wars(W.e)
    IN {pair \in {{f1, f2} : f1 \in OfType(W.e, FACTION), f2 \in OfType(W.e, FACTION)} :
           /\ Cardinality(pair) = 2
           /\ \E loc \in OfType(W.e, LOCATION) :
                 pair \subseteq Range(political_factions(W.e, loc))
           /\ pair \notin active_pairs(W)
           /\ LET f1 == Min(pair)
                  f2 == Min(pair \ {f1})
              IN calculate_cultural_tension(W, f1, f2, wars) < CertainTension}

RaidAggression == 3

\* the factions _spawn_raids rolls for
raiders(e) ==
    {f \in OfType(e, FACTION) :
        /\ e[f].data.culture_vector.aggression > RaidAggression
        /\ e[f].data.has_culture
        /\ "absorbed" \notin e[f].tags}

\* the locations a raider can pick: those of a neighbour biome, not destroyed
raid_targets(W, raider) ==
    LET loc == get_location_of(W.e, raider)
        current_biome == get_biome(W.e, loc)
        neighbor_ids == IF current_biome = None THEN <<>>
                        ELSE W.e[current_biome].data.neighbor_biomes
    IN {l \in OfType(W.e, LOCATION) :
           /\ "destroyed" \notin W.e[l].tags
           /\ \E k \in 1..Len(neighbor_ids) :
                 /\ get_entity(W.e, neighbor_ids[k]) # None
                 /\ l \in Range(get_children(W.e, neighbor_ids[k], LOCATION))}

raid_victims(W, target_loc) ==
    {f \in Range(get_children(W.e, target_loc, FACTION)) :
        "absorbed" \notin W.e[f].tags}

\* the (raider, target location, victim) triples the random choices allow
raid_options(W, raider) ==
    UNION {{<<raider, target_loc, victim>> : victim \in raid_victims(W, target_loc)} :
              target_loc \in raid_targets(W, raider)}

\* one raid of _spawn_raids that was not called off
raid(W, raider_faction, target_loc, victim, at_age) ==
    LET conflict == make_id(W.n)
        W1 == add_entity(W, conflict,
                 Entity(CONFLICT, "conflict_raid", {}, 0, None, at_age, TRUE,
                        [EmptyData EXCEPT !.participants = <<raider_faction, victim>>,
                                          !.location_id = target_loc,
                                          !.reason_id = "raid",
                                          !.status = "active",
                                          !.is_raid = TRUE]))
        W2 == AddRelations(W1, <<<<raider_faction, conflict, "involved_in">>,
                                 <<victim, conflict, "involved_in">>>>, 1)
        event_id == W2.n
        W3 == IF W2.x # "" THEN W2
              ELSE register_event(W2, "raid_start", at_age, conflict,
                                  <<raider_faction, victim>>, EmptyData)
    IN IF W3.x # "" THEN W3 ELSE Returned(W3, event_id)

RECURSIVE raid_loop(_, _, _, _)
raid_loop(W, raider_list, plan, at_age) ==
    IF raider_list = <<>> \/ W.x # "" THEN W
    ELSE LET mine == {t \in plan : t[1] = raider_list[1]}
             t == CHOOSE t \in mine : TRUE
         IN raid_loop(IF mine = {} THEN W ELSE raid(W, t[1], t[2], t[3], at_age),
                      Tail(raider_list), plan, at_age)

\* ConflictSystem._spawn_raids; plan holds the raids that go ahead
spawn_raids(W, plan, at_age) ==
    IF \E f \in OfType(W.e, FACTION) : ~W.e[f].has_data
    THEN Raise(W, "AttributeError")
    ELSE raid_loop(W, SortedSeq(raiders(W.e)), plan, at_age)

\* the plans the rolls can produce: at most one raid per raider
raid_plans(W, k) ==
    {plan \in SubsetsUpTo(UNION {raid_options(W, f) : f \in raiders(W.e)}, k) :
        \A a \in plan, b \in plan : a[1] = b[1] => a = b}

\* the locations _spawn_bosses rolls for
boss_locations(e) ==
    {l \in OfType(e, LOCATION) : {"boss", "disaster"} \cap e[l].tags = {}}

possible_boss_templates(e, biome) ==
    {t \in DOMAIN BossTemplates :
        e[biome].definition_id \in BossTemplates[t].allowed_biomes}

RECURSIVE boss_conflicts(_, _, _, _, _)
\* the conflict_boss entity created for each faction of the location
boss_conflicts(W, boss_entity, victims, loc, at_age) ==
    IF victims = <<>> \/ W.x # "" THEN W
    ELSE LET conflict == make_id(W.n)
             W1 == add_entity(W, conflict,
                      Entity(CONFLICT, "conflict_boss", {}, 0, None, at_age, TRUE,
                             [EmptyData EXCEPT
                                 !.participants = <<boss_entity, victims[1]>>,
                                 !.location_id = loc,
                                 !.reason_id = "survival",
                                 !.status = "active"]))
         IN boss_conflicts(
                AddRelations(W1, <<<<boss_entity, conflict, "involved_in">>,
                                   <<victims[1], conflict, "involved_in">>>>, 1),
                boss_entity, Tail(victims), loc, at_age)

\* one location of _spawn_bosses whose roll succeeded
spawn_boss(W, loc, at_age) ==
    LET factions_here == get_children(W.e, loc, FACTION)
        biome == get_biome(W.e, loc)
    IN IF biome = None THEN W
       ELSE IF possible_boss_templates(W.e, biome) = {} THEN W
       ELSE IF ~HasEntityTypeMember("BOSS") THEN Raise(W, "AttributeError")
       ELSE LET boss_tmpl == CHOOSE t \in possible_boss_templates(W.e, biome) : TRUE
                boss_entity == make_id(W.n)
                W1 == add_entity(W, boss_entity,
                         Entity("Boss", boss_tmpl,
                                BossTemplates[boss_tmpl].tags \cup {"boss", "hostile"},
                                0, loc, at_age, TRUE, EmptyData))
                W2 == IF "disaster" \in BossTemplates[boss_tmpl].tags
                      THEN AddTags(W1, loc, {"under_siege"}) ELSE W1
                event_id == W2.n
                W3 == register_event(W2, "boss_spawn", at_age, boss_entity,
                                     <<loc>>, EmptyData)
            IN IF W3.x # "" THEN W3
               ELSE boss_conflicts(Returned(W3, event_id), boss_entity,
                                   factions_here, loc, at_age)

RECURSIVE spawn_bosses(_, _, _, _)
\* ConflictSystem._spawn_bosses
spawn_bosses(W, locations, lucky, at_age) ==
    IF locations = <<>> \/ W.x # "" THEN W
    ELSE LET loc == locations[1]
         IN spawn_bosses(
                IF {"boss", "disaster"} \cap W.e[loc].tags # {} THEN W
                ELSE IF loc \in lucky THEN spawn_boss(W, loc, at_age)
                ELSE W,
                Tail(locations), lucky, at_age)

(***************************************************************************)
(* TransformationSystem                                                    *)
(***************************************************************************)
\* the (location, rule) pairs whose conditions hold before the roll
rule_applies(W, loc, rule, at_age) ==
    /\ rule.requires_tag \in W.e[loc].tags
    /\ rule.needs_faction = (get_children(W.e, loc, FACTION) # <<>>)
    /\ \/ rule.min_age_empty = 0
       \/ at_age - (IF W.e[loc].has_data THEN W.e[loc].data.destroyed_in_age ELSE 0)
             >= rule.min_age_empty

RECURSIVE transform_location(_, _, _, _, _)
\* the rules loop of process_transformations for one location; k is the rule
transform_location(W, loc, k, lucky, at_age) ==
    IF k > Len(TransformationRules) \/ W.x # "" THEN W
    ELSE LET rule == TransformationRules[k]
             occupants == get_children(W.e, loc, FACTION)
         IN IF ~rule_applies(W, loc, rule, at_age) \/ <<loc, k>> \notin lucky
            THEN transform_location(W, loc, k + 1, lucky, at_age)
            ELSE IF rule.target_def = "loc_wild_ruins"
            THEN LET W1 == AddTags(DiscardTags(W, loc, {rule.requires_tag}), loc, {"wild"})
                     event_id == W1.n
                     W2 == register_event(W1, "nature_reclaim", at_age, loc, <<>>,
                                          EmptyData)
                 IN transform_location(
                        IF W2.x # "" THEN W2 ELSE Returned(W2, event_id),
                        loc, k + 1, lucky, at_age)
            ELSE IF ~Registered(LocationTemplates, rule.target_def)
            THEN transform_location(W, loc, k + 1, lucky, at_age)
            ELSE LET target_tmpl == LocationTemplates[rule.target_def]
                     W1 == [W EXCEPT !.e[loc].definition_id = rule.target_def,
                                     !.e[loc].tags = target_tmpl.tags \cup {"transformed"},
                                     !.e[loc].capacity = target_tmpl.capacity]
                     event_id == W1.n
                     W2 == register_event(W1, "transformation", at_age, loc,
                               IF occupants # <<>> THEN <<occupants[1]>> ELSE <<>>,
                               EmptyData)
                 IN IF W2.x # "" THEN W2 ELSE Returned(W2, event_id)

RECURSIVE process_transformations(_, _, _, _)
\* TransformationSystem.process_transformations
process_transformations(W, locations, lucky, at_age) ==
    IF locations = <<>> \/ W.x # "" THEN W
    ELSE process_transformations(
            transform_location(W, locations[1], 1, lucky, at_age),
            Tail(locations), lucky, at_age)

\* the (location, rule) pairs that may roll at the start of the step
transformation_rolls(W, at_age) ==
    {<<loc, k>> : loc \in OfType(W.e, LOCATION), k \in 1..Len(TransformationRules)}

WildTags == {"hidden", "nature", "resource"}

\* the template a discovery uses: a wild one if the biome allows any
discovery_templates(biome_def) ==
    LET allowed == Range(BiomeTemplates[biome_def].allowed_locations)
        wild_candidates == {l \in allowed : Registered(LocationTemplates, l)
                                /\ LocationTemplates[l].tags \cap WildTags # {}}
    IN IF wild_candidates # {} THEN wild_candidates ELSE allowed

\* a discovery that does not look at the biome's capacity
discover_anyway(W, biome, target_def, at_age) ==
    LET def == W.e[biome].definition_id
    IN IF ~Registered(BiomeTemplates, def) THEN W
       ELSE IF BiomeTemplates[def].allowed_locations = <<>> THEN W
       ELSE IF ~Registered(LocationTemplates, target_def) THEN W
       ELSE LET new_loc == make_id(W.n)
                W1 == add_entity(W, new_loc,
                         Entity(LOCATION, target_def,
                                LocationTemplates[target_def].tags \cup {"wild", "discovered"},
                                LocationTemplates[target_def].capacity, biome, at_age,
                                FALSE, EmptyData))
                W2 == place_entity(W1, new_loc, biome)
                event_id == W2.n
                W3 == IF W2.x # "" THEN W2
                      ELSE register_event(W2, "discovery", at_age, new_loc, <<biome>>,
                                          EmptyData)
            IN IF W3.x # "" THEN W3 ELSE Returned(W3, event_id)

\* one biome of process_new_land_discovery whose roll succeeded
discover(W, biome, target_def, at_age) ==
    LET def == W.e[biome].definition_id
        has_tmpl == Registered(BiomeTemplates, def)
        current_locs == Len(get_children(W.e, biome, LOCATION))
    IN IF has_tmpl /\ BiomeTemplates[def].capacity # 0
          /\ current_locs >= BiomeTemplates[def].capacity THEN W
       ELSE IF ~has_tmpl THEN W
       ELSE IF BiomeTemplates[def].allowed_locations = <<>> THEN W
       ELSE IF ~Registered(LocationTemplates, target_def) THEN W
       ELSE LET new_loc == make_id(W.n)
                W1 == add_entity(W, new_loc,
                         Entity(LOCATION, target_def,
                                LocationTemplates[target_def].tags \cup {"wild", "discovered"},
                                LocationTemplates[target_def].capacity, biome, at_age,
                                FALSE, EmptyData))
                W2 == place_entity(W1, new_loc, biome)
                event_id == W2.n
                W3 == IF W2.x # "" THEN W2
                      ELSE register_event(W2, "discovery", at_age, new_loc, <<biome>>,
                                          EmptyData)
            IN IF W3.x # "" THEN W3 ELSE Returned(W3, event_id)

RECURSIVE process_new_land_discovery(_, _, _, _)
\* TransformationSystem.process_new_land_discovery
process_new_land_discovery(W, biomes, lucky, at_age) ==
    IF biomes = <<>> \/ W.x # "" THEN W
    ELSE LET biome == biomes[1]
             def == W.e[biome].definition_id
             target_def == IF Registered(BiomeTemplates, def)
                              /\ BiomeTemplates[def].allowed_locations # <<>>
                           THEN CHOOSE l \in discovery_templates(def) : TRUE
                           ELSE ""
         IN process_new_land_discovery(
                IF biome \in lucky THEN discover(W, biome, target_def, at_age) ELSE W,
                Tail(biomes), lucky, at_age)

expansion_factions(e) == {f \in OfType(e, FACTION) : "absorbed" \notin e[f].tags}

\* possible_targets of process_expansions: the other locations of the biome
expansion_targets(W, faction) ==
    LET loc == get_location_of(W.e, faction)
        biome == get_biome(W.e, loc)
    IN IF loc = None \/ biome = None THEN {}
       ELSE Range(get_children(W.e, biome, LOCATION)) \ {loc}

\* one faction of process_expansions whose roll succeeded and that picked target
expand(W, faction, target, at_age) ==
    LET new_faction == make_id(W.n)
        W1 == add_entity(W, new_faction,
                 [W.e[faction] EXCEPT !.parent_id = target,
                                      !.created_at = at_age,
                                      !.has_data = TRUE])
        W2 == AddRelations(W1, <<<<faction, target, "expanded_to">>,
                                 <<new_faction, faction, "splintered_from">>>>, 1)
        event_id == W2.n
        W3 == IF W2.x # "" THEN W2
              ELSE register_event(W2, "expansion", at_age, faction,
                                  <<target, new_faction>>, EmptyData)
    IN IF W3.x # "" THEN W3 ELSE Returned(W3, event_id)

RECURSIVE process_expansions(_, _, _, _)
\* TransformationSystem.process_expansions; plan holds (faction, target) for
\* the factions whose roll succeeded
process_expansions(W, factions, plan, at_age) ==
    IF factions = <<>> \/ W.x # "" THEN W
    ELSE LET mine == {t \in plan : t[1] = factions[1]}
             t == CHOOSE t \in mine : TRUE
         IN process_expansions(
                IF mine = {} \/ expansion_targets(W, factions[1]) = {} THEN W
                ELSE expand(W, t[1], t[2], at_age),
                Tail(factions), plan, at_age)

\* the plans the rolls can produce: at most one target per faction
expansion_plans(W, k) ==
    {plan \in SubsetsUpTo(
                 UNION {{<<f, t>> : t \in expansion_targets(W, f)} :
                           f \in expansion_factions(W.e)}, k) :
        \A a \in plan, b \in plan : a[1] = b[1] => a = b}

(***************************************************************************)
(* ConflictSystem: resolution.  The outcome operators return the SET of    *)
(* worlds the random choices can produce.                                  *)
(***************************************************************************)
RECURSIVE reparent(_, _, _)
reparent(W, children, new_parent) ==
    IF children = <<>> THEN W
    ELSE reparent([W EXCEPT !.e[children[1]].parent_id = new_parent],
                  Tail(children), new_parent)

\* ConflictSystem._apply_absorption with the given winner
absorb(W, factions, winner) ==
    LET losers == SelectSeq(factions, LAMBDA f : f # winner)
        RECURSIVE Loop(_, _)
        Loop(V, ls) ==
            IF ls = <<>> \/ V.x # "" THEN V
            ELSE LET loser == ls[1]
                     V1 == AddTags([V EXCEPT !.e[loser].data.absorbed_by = winner],
                                   loser, {"absorbed"})
                     V2 == reparent(V1, get_children(V1.e, loser, ""), winner)
                 IN Loop(add_relation(V2, loser, winner, "absorbed_by"), Tail(ls))
    IN Loop(W, losers)

apply_absorption(W, factions) ==
    {absorb(W, factions, winner) : winner \in Range(factions)}

\* the Faction limit _apply_flight reads from loc.data
flight_cap(e, loc) ==
    IF e[loc].data.limits_of # ""
    THEN template_limit(e[loc].data.limits_of, "Faction", 2) ELSE 2

\* ConflictSystem._apply_flight
apply_flight(W, factions, location, biome) ==
    UNION {
        LET winner == SelectSeq(factions, LAMBDA f : f # loser)[1]
            other_locations ==
                IF biome = None THEN <<>>
                ELSE SelectSeq(get_children(W.e, biome, LOCATION),
                               LAMBDA l : l # location)
            candidates ==
                SelectSeq(other_locations, LAMBDA loc :
                    Len(SelectSeq(get_children(W.e, loc, FACTION),
                                  LAMBDA f : "absorbed" \notin W.e[f].tags))
                        < flight_cap(W.e, loc))
            targets == IF candidates # <<>> THEN Range(candidates)
                       ELSE Range(other_locations)
        IN IF biome = None THEN apply_absorption(W, <<winner, loser>>)
           ELSE IF other_locations = <<>>
           THEN apply_absorption(W, <<winner, loser>>)
                \cup {AddTags(W, loser, {"inactive", "dead"})}
           ELSE IF \E k \in 1..Len(other_locations) : ~W.e[other_locations[k]].has_data
           THEN {Raise(W, "AttributeError")}
           ELSE {LET W1 == move_entity(W, loser, target_loc, "faction_located_in")
                 IN IF W1.x # "" THEN W1
                    ELSE add_relation(W1, loser, target_loc, "fled_to")
                 : target_loc \in targets}
        : loser \in Range(factions)}

StarterTemplates == <<"loc_hamlet", "loc_hunter_camp", "loc_village">>

DefaultBiomeCapacity == 10

\* ConflictSystem._apply_new_settlement
apply_new_settlement(W, factions, biome, at_age) ==
    IF biome = None THEN {W}
    ELSE LET def == W.e[biome].definition_id
             current_locs == get_children(W.e, biome, LOCATION)
             cap == IF BiomeTemplates[def].capacity # 0
                    THEN BiomeTemplates[def].capacity ELSE DefaultBiomeCapacity
         IN IF Registered(BiomeTemplates, def) /\ Len(current_locs) >= cap
            THEN {AddTags(W, loser, {"wandering_bandits"}) : loser \in Range(factions)}
            ELSE UNION {
                IF ~Registered(LocationTemplates, loc_def_id) THEN {W}
                ELSE LET template == LocationTemplates[loc_def_id]
                         new_location == make_id(W.n)
                         W1 == add_entity(W, new_location,
                                  Entity(LOCATION, loc_def_id,
                                         template.tags \cup {"new_settlement", "refugee_camp"},
                                         template.capacity, biome, at_age, TRUE,
                                         [EmptyData EXCEPT !.limits_of = loc_def_id]))
                         W2 == place_entity(W1, new_location, biome)
                     IN IF W2.x # "" THEN {W2}
                        ELSE {move_entity(W2, loser, new_location, "fled_to") :
                                 loser \in Range(factions)}
                : loc_def_id \in Range(StarterTemplates)}

RECURSIVE Without(_, _)
\* the entity table without the given ids
Without(e, ids) ==
    IF DOMAIN e \subseteq ids THEN <<>>
    ELSE LET id == CHOOSE i \in DOMAIN e : i \notin ids
         IN (id :> e[id]) @@ Without(e, ids \cup {id})

\* a destruction that deletes the inhabitants instead of tagging them
apply_destruction_deleting(W, location, at_age) ==
    {[W EXCEPT !.e = Without(W.e, Range(get_children(W.e, location, FACTION)))]}

\* ConflictSystem._apply_destruction
apply_destruction(W, location, at_age) ==
    LET W1 == [W EXCEPT !.e[location].has_data = TRUE,
                        !.e[location].data.destroyed_in_age = at_age,
                        !.e[location].definition_id = "loc_ruins",
                        !.e[location].tags = {"ruins", "dangerous", "hidden"}]
        children == get_children(W1.e, location, "")
        RECURSIVE Loop(_, _)
        Loop(V, cs) ==
            IF cs = <<>> THEN V
            ELSE Loop(IF V.e[cs[1]].type \in {FACTION, CHARACTER}
                      THEN AddTags(V, cs[1], {"inactive", "dead"})
                      ELSE IF V.e[cs[1]].type = RESOURCE
                      THEN AddTags(V, cs[1], {"buried"})
                      ELSE V,
                      Tail(cs))
    IN {Loop(W1, children)}

\* ConflictSystem._apply_truce
apply_truce(W, factions) ==
    IF Len(factions) < 2 THEN {W}
    ELSE LET RECURSIVE Tag(_, _)
             Tag(V, fs) == IF fs = <<>> THEN V
                           ELSE Tag(AddTags(V, fs[1], {"allied"}), Tail(fs))
             pairs == Combinations(factions)
         IN {AddRelations(Tag(W, factions),
                          [k \in 1..Len(pairs) |->
                              <<pairs[k][1], pairs[k][2], "allied_with">>], 1)}

\* the participants _resolve_single_conflict accepts as combatants
valid_factions(W, conflict) ==
    LET location_id == W.e[conflict].data.location_id
    IN SelectSeq(W.e[conflict].data.participants, LAMBDA fid :
          /\ get_entity(W.e, fid) # None
          /\ W.e[fid].type = FACTION
          /\ W.e[fid].parent_id = location_id
          /\ {"absorbed", "fled", "inactive"} \cap W.e[fid].tags = {})

\* outcome weights of random.choices
OutcomeWeights(reason_id) ==
    IF reason_id = "religious_crusade"
    THEN [truce |-> 0, absorption |-> 45, flight |-> 20, new_settlement |-> 15,
          destruction |-> 20]
    ELSE [truce |-> 20, absorption |-> 40, flight |-> 20, new_settlement |-> 15,
          destruction |-> 5]

Outcome(outcome, W) == [outcome |-> outcome, W |-> W]

RaidRollMin == 1
RaidRollMax == 10

aggression_of(e, f) ==
    IF e[f].data.has_culture THEN e[f].data.culture_vector.aggression ELSE 0

\* the raid branch of _resolve_single_conflict
resolve_raid(W, factions, location) ==
    LET attacker == factions[1]
        defender == factions[2]
        att == aggression_of(W.e, attacker)
        def == aggression_of(W.e, defender)
        can_win == att + RaidRollMax > def + RaidRollMin
        can_lose == att + RaidRollMin <= def + RaidRollMax
        resources == get_children(W.e, location, RESOURCE)
        raider_home == get_location_of(W.e, attacker)
        won == IF resources # <<>> /\ raider_home # None
               THEN {LET W1 == move_entity(W, stolen_res, raider_home, "located_in")
                     IN IF W1.x # "" THEN Outcome("raised", W1)
                        ELSE Outcome("raid_success_loot",
                                     AddTags(W1, stolen_res, {"stolen"}))
                     : stolen_res \in Range(resources)}
               ELSE {Outcome("raid_success_plunder", W)}
    IN (IF can_win THEN won ELSE {})
       \cup (IF can_lose THEN {Outcome("raid_repelled", W)} ELSE {})

\* ConflictSystem._resolve_single_conflict: the (outcome, world) pairs the
\* random choices can produce
resolve_single_conflict(W, conflict, at_age) ==
    LET location == get_entity(W.e, W.e[conflict].data.location_id)
        factions == valid_factions(W, conflict)
        biome == get_biome(W.e, location)
        weights == OutcomeWeights(W.e[conflict].data.reason_id)
        applied(chosen) ==
            IF chosen = "absorption" THEN apply_absorption(W, factions)
            ELSE IF chosen = "flight" THEN apply_flight(W, factions, location, biome)
            ELSE IF chosen = "new_settlement"
            THEN apply_new_settlement(W, factions, biome, at_age)
            ELSE IF chosen = "destruction" THEN apply_destruction(W, location, at_age)
            ELSE apply_truce(W, factions)
        stamped(V) == [V EXCEPT !.e[location].has_data = TRUE,
                                !.e[location].data.last_conflict_age = at_age]
    IN IF location = None THEN {Outcome("aborted", W)}
       ELSE IF Len(factions) < 2 THEN {Outcome("aborted", W)}
       ELSE IF W.e[conflict].data.is_raid THEN resolve_raid(W, factions, location)
       ELSE UNION {{IF V.x # "" THEN Outcome("raised", V)
                    ELSE Outcome(chosen, stamped(V)) : V \in applied(chosen)}
                   : chosen \in {c \in DOMAIN weights : weights[c] > 0}}

\* a resolve_conflicts without the status filter
all_conflicts(e) == {c \in OfType(e, CONFLICT) : e[c].has_data}

\* the conflicts resolve_conflicts iterates over
active_conflicts(e) ==
    {c \in OfType(e, CONFLICT) : e[c].has_data /\ e[c].data.status = "active"}

\* the body of the resolve_conflicts loop for one conflict
resolve_one(W, conflict, at_age) ==
    {IF o.outcome = "aborted" \/ o.outcome = "raised" THEN o.W
     ELSE LET W1 == [o.W EXCEPT !.e[conflict].data.status = "resolved",
                                !.e[conflict].data.outcome = o.outcome]
              participants ==
                  SelectSeq(W1.e[conflict].data.participants,
                            LAMBDA pid : get_entity(W1.e, pid) # None)
              event == W1.n
              W2 == register_event(W1, "conflict_resolved", at_age, conflict,
                                   participants,
                                   [EmptyData EXCEPT !.outcome = o.outcome])
              W3 == IF W2.x # "" THEN W2
                    ELSE add_relation(W2, conflict, event, "resolved_as")
          IN IF W3.x # "" THEN W3 ELSE Returned(W3, event)
     : o \in resolve_single_conflict(W, conflict, at_age)}

RECURSIVE resolve_loop(_, _, _)
resolve_loop(Ws, queue, at_age) ==
    IF queue = <<>> THEN Ws
    ELSE resolve_loop(
            UNION {IF W.x # "" THEN {W} ELSE resolve_one(W, queue[1], at_age) : W \in Ws},
            Tail(queue), at_age)

\* ConflictSystem.resolve_conflicts: the worlds it can return
resolve_conflicts(W, at_age) ==
    resolve_loop({W}, SortedSeq(active_conflicts(W.e)), at_age)

(***************************************************************************)
(* NarrativeEngine._sync_spatial_data                                      *)
(***************************************************************************)
LocatingRelations == {"located_in", "fled_to", "occurred_at"}

\* the target of the first locating relation that starts at the entity
locating_target(W, entity) ==
    LET hits == {k \in 1..Len(W.r) :
                    /\ W.r[k].from_entity = entity
                    /\ W.r[k].relation_type \in LocatingRelations}
    IN IF hits = {} THEN None ELSE W.r[Min(hits)].to_entity

sync_spatial_data(W) ==
    [W EXCEPT !.e = [i \in DOMAIN W.e |->
        LET target_location == locating_target(W, i)
        IN IF /\ W.e[i].type \notin {LOCATION, BIOME}
              /\ target_location # None
              /\ W.e[target_location].has_data
              /\ W.e[target_location].data.has_xy
           THEN [W.e[i] EXCEPT !.has_data = TRUE, !.data.has_xy = TRUE]
           ELSE W.e[i]]]

(***************************************************************************)
(* WorldGenerator                                                          *)
(***************************************************************************)
\* the spatial layout: the biome of each cell of a one-row grid
Layout == <<"biome_a", "biome_a">>

\* layout.neighbors(coord) restricted to occupied cells, as entity ids
neighbor_ids(cell) ==
    SortedSeq({c \in 1..Len(Layout) : c = cell - 1 \/ c = cell + 1})

RECURSIVE gen_biomes(_, _)
\* step 1 of generate_from_spatial_layout: one Biome entity per occupied cell
gen_biomes(W, cell) ==
    IF cell > Len(Layout) THEN W
    ELSE IF ~Registered(BiomeTemplates, Layout[cell]) THEN gen_biomes(W, cell + 1)
    ELSE gen_biomes(
            add_entity(W, make_id(W.n),
                Entity(BIOME, Layout[cell], {}, BiomeTemplates[Layout[cell]].capacity,
                       None, 0, TRUE,
                       [EmptyData EXCEPT !.neighbor_biomes = neighbor_ids(cell)])),
            cell + 1)

RECURSIVE gen_resources(_, _, _, _)
gen_resources(W, location, pool, num_to_add) ==
    IF num_to_add <= 0 THEN W
    ELSE LET res_def_id == pool[1]
         IN gen_resources(
                IF ~Registered(ResourceTemplates, res_def_id) THEN W
                ELSE add_entity(W, make_id(W.n),
                        Entity(RESOURCE, res_def_id,
                               ResourceTemplates[res_def_id].tags \cup {"common"},
                               0, location, 0, FALSE, EmptyData)),
                location, pool, num_to_add - 1)

\* WorldGenerator._add_location_contents; res_roll is randint(1, 2), settled
\* tells whether the 75% faction roll succeeded
add_location_contents(W, location, biome_def, loc_def, res_roll, settled) ==
    LET max_resources == template_limit(loc_def, "Resource", 1)
        pool == BiomeTemplates[biome_def].available_resources
        W1 == IF max_resources > 0 /\ pool # <<>>
              THEN gen_resources(W, location, pool, Min({res_roll, max_resources}))
              ELSE W
        max_factions == template_limit(loc_def, "Faction", 2)
        spawn_rules == BiomeTemplates[biome_def].factions
    IN IF max_factions > 0 /\ settled /\ spawn_rules # <<>>
          /\ Registered(FactionTemplates, spawn_rules[1])
       THEN add_entity(W1, make_id(W1.n),
                Entity(FACTION, spawn_rules[1],
                       {"faction"} \cup FactionTemplates[spawn_rules[1]].tags,
                       0, location, 0, TRUE,
                       [EmptyData EXCEPT
                           !.role = FactionTemplates[spawn_rules[1]].role,
                           !.culture_vector = FactionTemplates[spawn_rules[1]].culture,
                           !.has_culture = TRUE]))
       ELSE W1

RECURSIVE gen_locations(_, _, _, _, _, _)
\* step 2 of generate_from_spatial_layout for one biome; i is the slot index
gen_locations(W, biome, i, num_locations, res_roll, settled) ==
    IF i > num_locations[biome] THEN W
    ELSE LET biome_def == W.e[biome].definition_id
             loc_def_id == BiomeTemplates[biome_def].allowed_locations[1]
             location == make_id(W.n)
             W1 == add_entity(W, location,
                      Entity(LOCATION, loc_def_id, LocationTemplates[loc_def_id].tags,
                             LocationTemplates[loc_def_id].capacity, biome, 0, TRUE,
                             EmptyData))
         IN gen_locations(
                IF ~Registered(LocationTemplates, loc_def_id) THEN W
                ELSE add_location_contents(W1, location, biome_def, loc_def_id,
                                           res_roll, <<biome, i>> \in settled),
                biome, i + 1, num_locations, res_roll, settled)

\* a generator that links the resources only
setup_resource_relations(W) ==
    LET children == SortedSeq({c \in DOMAIN W.e :
                        /\ W.e[c].type = RESOURCE
                        /\ W.e[c].parent_id # None
                        /\ W.e[W.e[c].parent_id].type = LOCATION})
        RECURSIVE Link(_, _)
        Link(V, cs) ==
            IF cs = <<>> \/ V.x # "" THEN V
            ELSE Link(graph_add_relation(V, cs[1], V.e[cs[1]].parent_id, "located_in"),
                      Tail(cs))
    IN Link(W, children)

\* WorldGenerator._setup_relations: a container link for every resource and
\* faction whose parent is a location
setup_relations(W) ==
    LET children == SortedSeq({c \in DOMAIN W.e :
                        /\ W.e[c].type \in {RESOURCE, FACTION}
                        /\ W.e[c].parent_id # None
                        /\ W.e[W.e[c].parent_id].type = LOCATION})
        RECURSIVE Link(_, _)
        Link(V, cs) ==
            IF cs = <<>> \/ V.x # "" THEN V
            ELSE Link(graph_add_relation(V, cs[1], V.e[cs[1]].parent_id,
                         IF V.e[cs[1]].type = RESOURCE THEN "located_in"
                         ELSE "faction_located_in"),
                      Tail(cs))
    IN Link(W, children)

\* steps 2 and 3 of generate_from_spatial_layout over the biomes of W0
fill_biomes(W0, num_locations, res_roll, settled) ==
    LET biomes == SortedSeq(OfType(W0.e, BIOME))
        RECURSIVE Fill(_, _)
        Fill(V, bs) ==
            IF bs = <<>> THEN V
            ELSE Fill(IF BiomeTemplates[V.e[bs[1]].definition_id].allowed_locations = <<>>
                      THEN V
                      ELSE gen_locations(V, bs[1], 1, num_locations, res_roll, settled),
                      Tail(bs))
    IN setup_relations(Fill(W0, biomes))

\* WorldGenerator.generate_from_spatial_layout
generate_from_spatial_layout(num_locations, res_roll, settled) ==
    fill_biomes(gen_biomes(World(<<>>, <<>>, 1, "", <<>>), 1),
                num_locations, res_roll, settled)

\* the values random.randint(2, min(3, capacity or 3)) can return; randint
\* raises ValueError when there is none
location_range(capacity) == 2..Min({3, IF capacity # 0 THEN capacity ELSE 3})

\* the values random.randint(2, min(3, capacity or 3)) can take, up to the bound
location_counts(cell) ==
    {k \in location_range(BiomeTemplates[Layout[cell]].capacity) : k <= MaxLocations}

\* the worlds the generator can produce within the bounds
generated_worlds ==
    {generate_from_spatial_layout(num_locations, res_roll, settled) :
        res_roll \in 1..2,
        num_locations \in {f \in [1..Len(Layout) -> 2..3] :
                              \A c \in 1..Len(Layout) : f[c] \in location_counts(c)},
        settled \in SubsetsUpTo((1..Len(Layout)) \X (1..MaxLocations), MaxInitFactions)}

(***************************************************************************)
(* SimulationService.run_simulation driving NarrativeEngine.evolve(1)      *)
(***************************************************************************)
\* the systems of one epoch in the order evolve calls them
StepOrder ==
    <<"leader_decay", "resource_decay", "beliefs", "ensure_leaders",
      "religious_wars", "civil_wars", "political_conflicts", "raids", "bosses",
      "discovery", "new_resources", "regrowth", "overcrowding",
      "transformations", "expansions", "resolve_conflicts", "sync_spatial">>

GrowthPeriod == 5

StepIndex(step) == CHOOSE i \in 1..Len(StepOrder) : StepOrder[i] = step

\* an evolve whose growth block runs in every epoch
NextStepGrowing(step, at_age) ==
    IF step = "sync_spatial" THEN "write_events"
    ELSE StepOrder[StepIndex(step) + 1]

\* the statement evolve reaches after the given step at the given age
NextStep(step, at_age) ==
    IF step = "sync_spatial" THEN "write_events"
    ELSE IF step = "bosses" /\ at_age % GrowthPeriod # 0 THEN "overcrowding"
    ELSE StepOrder[StepIndex(step) + 1]

NoResolve == [called |-> FALSE]

NoCall == [called |-> FALSE, calls |-> 0]

NoLayout == [phase |-> "none"]

NoVectors == [phase |-> "none"]

\* the threads BackgroundTasks can run run_simulation on at once
Callers == {1, 2}

NoThreads == [c \in Callers |-> [at |-> "ready", left |-> 0]]

Init ==
    /\ entities = <<>>
    /\ relations = <<>>
    /\ relation_types = {}
    /\ next_id = 1
    /\ age = 0
    /\ pc = "idle"
    /\ all_events = <<>>
    /\ history = <<>>
    /\ target_epochs = 0
    /\ is_running = FALSE
    /\ rolls = 0
    /\ steps = <<>>
    /\ exc = ""
    /\ last_resolve = NoResolve
    /\ last_move = NoMove
    /\ disk = <<>>
    /\ heap = <<>>
    /\ loaded = <<>>
    /\ last_call = NoCall
    /\ layout = NoLayout
    /\ vecs = NoVectors
    /\ threads = NoThreads

store == <<disk, heap, loaded>>

aux == <<last_call, layout, vecs, threads>>

\* the world value a system starts from
Current == World(entities, relations, next_id, "", <<>>)

\* what a system call leaves behind: the mutated graph, the events appended
\* to all_events, and either the next statement or the propagating exception
Finish(step, W, used) ==
    /\ entities' = W.e
    /\ relations' = W.r
    /\ next_id' = W.n
    /\ rolls' = rolls + used
    /\ last_move' = IF W.mv.called THEN W.mv ELSE last_move
    /\ steps' = Append(steps, step)
    /\ IF W.x # ""
       THEN /\ exc' = W.x
            /\ pc' = "except"
            /\ all_events' = all_events
       ELSE /\ exc' = exc
            /\ pc' = NextStep(step, age)
            /\ all_events' = all_events \o W.ev
    /\ UNCHANGED <<relation_types, age, history, target_epochs, is_running, store, aux>>

\* rolls that may still succeed
Budget == MaxRolls - rolls

\* Finish for a choice of successful rolls, kept only if it changed something
FinishEffective(step, W, used, baseline) ==
    /\ used = 0 \/ W # baseline
    /\ Finish(step, W, used)

\* run_simulation up to the epoch loop: the guard on is_running, the
\* generated world, the NarrativeEngine constructor
RunSimulation ==
    /\ pc = "idle"
    /\ ~is_running
    /\ \E W \in generated_worlds, n \in {MaxEpochs} :
          /\ entities' = W.e
          /\ relations' = W.r
          /\ next_id' = W.n
          /\ target_epochs' = n
    /\ relation_types' = GeneratorRelationTypes \cup NarrativeRelationTypes
    /\ is_running' = TRUE
    /\ age' = 0
    /\ history' = <<>>
    /\ pc' = "loop"
    /\ UNCHANGED <<all_events, rolls, steps, exc, last_resolve, last_move, store, aux>>

\* one more iteration of the for loop: evolve(1) starts and increments age
BeginEpoch ==
    /\ pc = "loop"
    /\ age < target_epochs
    /\ age' = age + 1
    /\ all_events' = <<>>
    /\ steps' = <<>>
    /\ last_resolve' = NoResolve
    /\ last_move' = NoMove
    /\ pc' = "leader_decay"
    /\ UNCHANGED <<entities, relations, relation_types, next_id, history,
                   target_epochs, is_running, rolls, exc, store, aux>>

LeaderDecay ==
    /\ pc = "leader_decay"
    /\ \E dying \in SubsetsUpTo(decay_leaders(entities), Budget) :
          Finish("leader_decay",
              process_leader_decay(Current, SortedSeq(decay_leaders(entities)),
                                   dying, age),
              Cardinality(dying))
    /\ UNCHANGED last_resolve

ResourceDecay ==
    /\ pc = "resource_decay"
    /\ \E depleting \in SubsetsUpTo(decay_resources(entities), Budget) :
          Finish("resource_decay",
              process_resource_decay(Current,
                       SortedSeq(decay_resources(entities)), depleting, age),
              Cardinality(depleting))
    /\ UNCHANGED last_resolve

Beliefs ==
    /\ pc = "beliefs"
    /\ \E prophets \in genesis_samples(Current),
          open \in ArrangementsUpTo(spread_factions(entities), Budget) :
          \E variants \in variation_rolls(prophets) :
             FinishEffective("beliefs",
                 process_beliefs(Current, prophets, variants, open, age),
                 Len(open), process_beliefs(Current, prophets, variants, <<>>, age))
    /\ UNCHANGED last_resolve

EnsureLeaders ==
    /\ pc = "ensure_leaders"
    /\ LET factions == SortedSeq({f \in OfType(entities, FACTION) :
                                     "absorbed" \notin entities[f].tags})
       IN Finish("ensure_leaders", ensure_leaders(Current, factions, age), 0)
    /\ UNCHANGED last_resolve

ReligiousWars ==
    /\ pc = "religious_wars"
    /\ \/ Finish("religious_wars", Current, 0)
       \/ /\ Budget > 0
          /\ \E attacker \in OfType(entities, BELIEF),
                defender \in OfType(entities, BELIEF) :
                /\ attacker # defender
                /\ FinishEffective("religious_wars",
                      spawn_religious_war(Current, attacker, defender, age), 1, Current)
    /\ UNCHANGED last_resolve

CivilWars ==
    /\ pc = "civil_wars"
    /\ \E rebels \in SubsetsUpTo(
                        IF age % CivilWarPeriod = 0
                        THEN civil_war_candidates(entities) ELSE {}, Budget) :
          Finish("civil_wars",
              spawn_civil_wars(Current,
                       SortedSeq(civil_war_candidates(entities)), rebels, age),
              Cardinality(rebels))
    /\ UNCHANGED last_resolve

PoliticalConflicts ==
    /\ pc = "political_conflicts"
    /\ \E lucky \in SubsetsUpTo(political_rolls(Current), Budget) :
          Finish("political_conflicts",
              spawn_political_conflicts(Current,
                       SortedSeq(OfType(entities, LOCATION)),
                       active_global_wars(entities), lucky, age),
              Cardinality(lucky))
    /\ UNCHANGED last_resolve

Raids ==
    /\ pc = "raids"
    /\ \E plan \in raid_plans(Current, Budget) :
          Finish("raids", spawn_raids(Current, plan, age), Cardinality(plan))
    /\ UNCHANGED last_resolve

Bosses ==
    /\ pc = "bosses"
    /\ \E lucky \in SubsetsUpTo(boss_locations(entities), Budget) :
          FinishEffective("bosses",
              spawn_bosses(Current, SortedSeq(OfType(entities, LOCATION)),
                           lucky, age),
              Cardinality(lucky), Current)
    /\ UNCHANGED last_resolve

Discovery ==
    /\ pc = "discovery"
    /\ \E lucky \in SubsetsUpTo(OfType(entities, BIOME), Budget) :
          FinishEffective("discovery",
              process_new_land_discovery(Current,
                       SortedSeq(OfType(entities, BIOME)), lucky, age),
              Cardinality(lucky), Current)
    /\ UNCHANGED last_resolve

NewResources ==
    /\ pc = "new_resources"
    /\ \E lucky \in SubsetsUpTo(OfType(entities, LOCATION), Budget) :
          FinishEffective("new_resources",
              process_new_resources(Current,
                       SortedSeq(OfType(entities, LOCATION)), lucky, age),
              Cardinality(lucky), Current)
    /\ UNCHANGED last_resolve

Regrowth ==
    /\ pc = "regrowth"
    /\ \E regrowing \in SubsetsUpTo(regrowth_resources(entities), Budget) :
          Finish("regrowth",
              process_resource_regrowth(Current,
                       SortedSeq(regrowth_resources(entities)), regrowing, age),
              Cardinality(regrowing))
    /\ UNCHANGED last_resolve

\* the factions a famine can take: the active ones of an overcrowded location
famine_victims(e) ==
    {f \in OfType(e, FACTION) :
        \E loc \in OfType(e, LOCATION) :
            /\ f \in Range(overcrowding_active(e, loc))
            /\ Len(overcrowding_active(e, loc)) > overcrowding_limit(e, loc)}

Overcrowding ==
    /\ pc = "overcrowding"
    /\ \E victims \in SubsetsUpTo(famine_victims(entities), Budget) :
          /\ \A a \in victims, b \in victims :
                entities[a].parent_id = entities[b].parent_id => a = b
          /\ Finish("overcrowding",
                    process_overcrowding(Current, SortedSeq(OfType(entities, LOCATION)),
                                         victims, age),
                    Cardinality(victims))
    /\ UNCHANGED last_resolve

Transformations ==
    /\ pc = "transformations"
    /\ \E lucky \in SubsetsUpTo(
                       {t \in transformation_rolls(Current, age) :
                           rule_applies(Current, t[1], TransformationRules[t[2]], age)},
                       Budget) :
          FinishEffective("transformations",
              process_transformations(Current,
                       SortedSeq(OfType(entities, LOCATION)), lucky, age),
              Cardinality(lucky), Current)
    /\ UNCHANGED last_resolve

Expansions ==
    /\ pc = "expansions"
    /\ \E plan \in expansion_plans(Current, Budget) :
          Finish("expansions",
                 process_expansions(Current, SortedSeq(expansion_factions(entities)),
                                    plan, age),
                 Cardinality(plan))
    /\ UNCHANGED last_resolve

ResolveConflicts ==
    /\ pc = "resolve_conflicts"
    /\ \E W \in resolve_conflicts(Current, age) :
          Finish("resolve_conflicts", W, 0)
    /\ last_resolve' = [called |-> TRUE, active |-> active_conflicts(entities),
                        at_age |-> age]

SyncSpatial ==
    /\ pc = "sync_spatial"
    /\ Finish("sync_spatial", sync_spatial_data(Current), 0)
    /\ UNCHANGED last_resolve

\* a line of history.jsonl: the dump of an entity evolve returned
HistoryLine(e, id) ==
    [age |-> e[id].created_at,
     event_type |-> IF e[id].type = EVENT THEN e[id].data.event_type ELSE e[id].type]

\* evolve returned: the driver writes one line per returned entity
WriteEvents ==
    /\ pc = "write_events"
    /\ history' = history \o [k \in 1..Len(all_events) |->
                                 HistoryLine(entities, all_events[k])]
    /\ pc' = "loop"
    /\ UNCHANGED <<entities, relations, relation_types, next_id, age, all_events,
                   target_epochs, is_running, rolls, steps, exc, last_resolve,
                   last_move, store, aux>>

\* an except clause inside the loop: the line is written and the loop goes on
ExceptHandlerResumes ==
    /\ pc = "except"
    /\ history' = Append(history, [age |-> age, event_type |-> "CRITICAL_ERROR"])
    /\ pc' = "loop"
    /\ UNCHANGED <<entities, relations, relation_types, next_id, age, all_events,
                   target_epochs, is_running, rolls, steps, exc, last_resolve,
                   last_move, store, aux>>

\* the except clause around the whole epoch loop: one CRITICAL_ERROR line,
\* then the statement after the try
ExceptHandler ==
    /\ pc = "except"
    /\ history' = Append(history, [age |-> age, event_type |-> "CRITICAL_ERROR"])
    /\ pc' = "save"
    /\ UNCHANGED <<entities, relations, relation_types, next_id, age, all_events,
                   target_epochs, is_running, rolls, steps, exc, last_resolve,
                   last_move, store, aux>>

\* range(1, target_epochs + 1) is exhausted
EndLoop ==
    /\ pc = "loop"
    /\ age >= target_epochs
    /\ pc' = "save"
    /\ UNCHANGED <<entities, relations, relation_types, next_id, age, all_events,
                   history, target_epochs, is_running, rolls, steps, exc,
                   last_resolve, last_move, store, aux>>

(***************************************************************************)
(* Persistence: save_world_to_json, GeneralProvider.get_world,             *)
(* load_world_from_json.  A loaded world lives on a heap of objects: the   *)
(* entity table and the relation endpoints hold addresses.                 *)
(***************************************************************************)
\* world.model_dump(mode="json"): every relation carries a full dump of its
\* two endpoint entities
model_dump(e, r, rt) ==
    [entities |-> [k \in 1..Cardinality(DOMAIN e) |->
                      LET id == SortedSeq(DOMAIN e)[k] IN [id |-> id, rec |-> e[id]]],
     relation_types |-> rt,
     relations |-> [k \in 1..Len(r) |->
                      [from_entity |-> [id |-> r[k].from_entity,
                                        rec |-> e[r[k].from_entity]],
                       to_entity |-> [id |-> r[k].to_entity,
                                      rec |-> e[r[k].to_entity]],
                       relation_type |-> r[k].relation_type]]]

\* the address of the table entry with that id (0 = no such entry)
table_address(data, id) ==
    LET hits == {k \in 1..Len(data.entities) : data.entities[k].id = id}
    IN IF hits = {} THEN None ELSE Min(hits)

\* GeneralProvider.get_world: entities first, then each relation re-linked to
\* the table's objects by id; relations with a missing end or type are dropped
get_world(data) ==
    LET kept == SelectSeq(data.relations, LAMBDA rel :
                    /\ table_address(data, rel.from_entity.id) # None
                    /\ table_address(data, rel.to_entity.id) # None
                    /\ rel.relation_type \in data.relation_types)
    IN [heap |-> data.entities,
        table |-> [k \in 1..Len(data.entities) |-> k],
        relations |-> [k \in 1..Len(kept) |->
                          [from_entity |-> table_address(data, kept[k].from_entity.id),
                           to_entity |-> table_address(data, kept[k].to_entity.id),
                           relation_type |-> kept[k].relation_type]]]

\* load_world_from_json: World.model_validate builds every nested Entity of
\* the document anew, so each relation end is an object of its own
load_world_from_json(data) ==
    LET n == Len(data.entities)
    IN [heap |-> data.entities \o
                 [k \in 1..(2 * Len(data.relations)) |->
                     IF k % 2 = 1 THEN data.relations[(k + 1) \div 2].from_entity
                     ELSE data.relations[k \div 2].to_entity],
        table |-> [k \in 1..n |-> k],
        relations |-> [k \in 1..Len(data.relations) |->
                          [from_entity |-> n + 2 * k - 1,
                           to_entity |-> n + 2 * k,
                           relation_type |-> data.relations[k].relation_type]]]

\* SimulationService.generate_world_only: generate, then save
GenerateWorldOnly ==
    /\ pc = "idle"
    /\ \E W \in generated_worlds :
          /\ entities' = W.e
          /\ relations' = W.r
          /\ next_id' = W.n
          /\ disk' = model_dump(W.e, W.r, GeneratorRelationTypes)
    /\ relation_types' = GeneratorRelationTypes
    /\ pc' = "stored"
    /\ UNCHANGED <<age, all_events, history, target_epochs, is_running, rolls,
                   steps, exc, last_resolve, last_move, heap, loaded, aux>>

LoadGetWorld ==
    /\ pc = "stored"
    /\ LET world == get_world(disk)
       IN /\ heap' = world.heap
          /\ loaded' = [table |-> world.table, relations |-> world.relations,
                        by |-> "get_world", touched |-> {}]
    /\ pc' = "loaded"
    /\ UNCHANGED <<entities, relations, relation_types, next_id, age, all_events,
                   history, target_epochs, is_running, rolls, steps, exc,
                   last_resolve, last_move, disk, aux>>

LoadWorldFromJson ==
    /\ pc = "stored"
    /\ LET world == load_world_from_json(disk)
       IN /\ heap' = world.heap
          /\ loaded' = [table |-> world.table, relations |-> world.relations,
                        by |-> "load_world_from_json", touched |-> {}]
    /\ pc' = "loaded"
    /\ UNCHANGED <<entities, relations, relation_types, next_id, age, all_events,
                   history, target_epochs, is_running, rolls, steps, exc,
                   last_resolve, last_move, disk, aux>>

\* WorldQueryService.update_tags on the loaded world: the entity is fetched
\* from the table and its tag set changed in place
UpdateTags ==
    /\ pc = "loaded"
    /\ Cardinality(loaded.touched) < MaxTouches
    /\ \E k \in DOMAIN loaded.table :
          /\ k \notin loaded.touched
          /\ heap' = [heap EXCEPT ![loaded.table[k]].rec.tags = @ \cup {"touched"}]
          /\ loaded' = [loaded EXCEPT !.touched = @ \cup {k}]
    /\ UNCHANGED <<entities, relations, relation_types, next_id, age, pc, all_events,
                   history, target_epochs, is_running, rolls, steps, exc,
                   last_resolve, last_move, disk, aux>>

\* save_world_to_json(world, "world_final.json") after the try/except
SaveWorld ==
    /\ pc = "save"
    /\ disk' = model_dump(entities, relations, relation_types)
    /\ pc' = "finally"
    /\ UNCHANGED <<entities, relations, relation_types, next_id, age, all_events,
                   history, target_epochs, is_running, rolls, steps, exc,
                   last_resolve, last_move, heap, loaded, aux>>

\* the finally clause of run_simulation
Finally ==
    /\ pc = "finally"
    /\ is_running' = FALSE
    /\ pc' = "done"
    /\ UNCHANGED <<entities, relations, relation_types, next_id, age, all_events,
                   history, target_epochs, rolls, steps, exc, last_resolve,
                   last_move, store, aux>>

Next ==
    \/ RunSimulation
    \/ BeginEpoch
    \/ LeaderDecay
    \/ ResourceDecay
    \/ Beliefs
    \/ EnsureLeaders
    \/ ReligiousWars
    \/ CivilWars
    \/ PoliticalConflicts
    \/ Raids
    \/ Bosses
    \/ Discovery
    \/ NewResources
    \/ Regrowth
    \/ Overcrowding
    \/ Transformations
    \/ Expansions
    \/ ResolveConflicts
    \/ SyncSpatial
    \/ WriteEvents
    \/ ExceptHandler
    \/ EndLoop
    \/ SaveWorld
    \/ Finally

Spec == Init /\ [][Next]_vars

NextStore ==
    \/ GenerateWorldOnly
    \/ LoadGetWorld
    \/ LoadWorldFromJson
    \/ UpdateTags

SpecStore == Init /\ [][NextStore]_vars

(***************************************************************************)
(* Direct calls of WorldQueryService on a freshly generated world: only    *)
(* the generator's relation types are registered.                          *)
(***************************************************************************)
\* number of direct calls made on one service
MaxCalls == 1

\* the relation type ids a caller passes
CallerRelationTypes == {"located_in", "faction_located_in", "believes_in"}

\* WorldQueryService(world) over the world WorldGenerator.generate returned
NewService ==
    /\ pc = "idle"
    /\ \E W \in generated_worlds :
          /\ entities' = W.e
          /\ relations' = W.r
          /\ next_id' = W.n
    /\ relation_types' = GeneratorRelationTypes
    /\ pc' = "service"
    /\ UNCHANGED <<age, all_events, history, target_epochs, is_running, rolls,
                   steps, exc, last_resolve, last_move, store, aux>>

\* one call of WorldQueryService.add_relation; the caller sees the exception
CallAddRelation ==
    /\ pc = "service"
    /\ last_call.calls < MaxCalls
    /\ \E from_e \in DOMAIN entities \cup {None}, to_e \in DOMAIN entities \cup {None},
          rel_type_id \in CallerRelationTypes :
          LET W == add_relation(Current, from_e, to_e, rel_type_id)
          IN /\ entities' = W.e
             /\ relations' = W.r
             /\ next_id' = W.n
             /\ last_call' = [called |-> TRUE, calls |-> last_call.calls + 1,
                              method |-> "add_relation", from_e |-> from_e,
                              to_e |-> to_e, rel_type_id |-> rel_type_id,
                              entities |-> entities, relations |-> relations,
                              raised |-> W.x]
    /\ UNCHANGED <<relation_types, age, pc, all_events, history, target_epochs,
                   is_running, rolls, steps, exc, last_resolve, last_move, store,
                   layout, vecs, threads>>

NextService ==
    \/ NewService
    \/ CallAddRelation

SpecService == Init /\ [][NextService]_vars

(***************************************************************************)
(* The systems of NarrativeEngine called one by one on a generated world:  *)
(* the calls evolve makes, in any order, with any outcome of their rolls.  *)
(***************************************************************************)
\* number of system calls made on one engine
MaxSystemCalls == 4

\* rolls that may succeed within one system call
MaxLucky == 1

\* factions whose resistance roll lets them through in one process_beliefs
MaxOpen == 2

\* NarrativeEngine(world, ...) over the world WorldGenerator.generate
\* returned, about to run its first epoch
NewEngine ==
    /\ pc = "idle"
    /\ \E W \in generated_worlds :
          /\ entities' = W.e
          /\ relations' = W.r
          /\ next_id' = W.n
    /\ relation_types' = GeneratorRelationTypes \cup NarrativeRelationTypes
    /\ age' = 1
    /\ pc' = "engine"
    /\ UNCHANGED <<all_events, history, target_epochs, is_running, rolls,
                   steps, exc, last_resolve, last_move, store, aux>>

\* what one system call leaves behind: the mutated graph and, kept for the
\* properties, the graph it started from; an exception ends the calls
SystemCall(method, W) ==
    /\ pc = "engine"
    /\ last_call.calls < MaxSystemCalls
    /\ entities' = W.e
    /\ relations' = W.r
    /\ next_id' = W.n
    /\ exc' = W.x
    /\ pc' = IF W.x # "" THEN "raised" ELSE "engine"
    /\ last_call' = [called |-> TRUE, calls |-> last_call.calls + 1,
                     method |-> method, entities |-> entities,
                     relations |-> relations, raised |-> W.x]
    /\ UNCHANGED <<relation_types, age, all_events, history, target_epochs,
                   is_running, rolls, steps, last_resolve, last_move, store,
                   layout, vecs, threads>>

CallProcessBeliefs ==
    \E prophets \in genesis_samples(Current),
       open \in ArrangementsUpTo(spread_factions(entities), MaxOpen) :
       \E variants \in variation_rolls(prophets) :
          SystemCall("process_beliefs",
                     process_beliefs(Current, prophets, variants, open, age))

CallSpawnReligiousWars ==
    \/ SystemCall("spawn_religious_wars", Current)
    \/ \E attacker \in OfType(entities, BELIEF), defender \in OfType(entities, BELIEF) :
          /\ attacker # defender
          /\ SystemCall("spawn_religious_wars",
                        spawn_religious_war(Current, attacker, defender, age))

CallSpawnPoliticalConflicts ==
    \E lucky \in SubsetsUpTo(political_rolls(Current), MaxLucky) :
       SystemCall("spawn_political_conflicts",
                  spawn_political_conflicts(Current,
                      SortedSeq(OfType(entities, LOCATION)),
                      active_global_wars(entities), lucky, age))

CallResolveConflicts ==
    \E W \in resolve_conflicts(Current, age) :
       SystemCall("resolve_conflicts", W)

CallProcessExpansions ==
    \E plan \in expansion_plans(Current, MaxLucky) :
       SystemCall("process_expansions",
                  process_expansions(Current, SortedSeq(expansion_factions(entities)),
                                     plan, age))

CallProcessOvercrowding ==
    \E victims \in SubsetsUpTo(famine_victims(entities), MaxLucky) :
       /\ \A a \in victims, b \in victims :
             entities[a].parent_id = entities[b].parent_id => a = b
       /\ SystemCall("process_overcrowding",
                     process_overcrowding(Current,
                         SortedSeq(OfType(entities, LOCATION)), victims, age))

NextEngine ==
    \/ NewEngine
    \/ CallProcessBeliefs
    \/ CallSpawnReligiousWars
    \/ CallSpawnPoliticalConflicts
    \/ CallResolveConflicts
    \/ CallProcessExpansions
    \/ CallProcessOvercrowding

SpecEngine == Init /\ [][NextEngine]_vars

(***************************************************************************)
(* Direct calls of WorldQueryService.register_event on the world of a new  *)
(* NarrativeEngine: every relation type is registered.                     *)
(***************************************************************************)
\* the longest secondary_entities list passed to register_event
MaxSecondary == 2

\* one call of register_event; explicit is data["location_id"] (None = the
\* caller's data holds no location)
CallRegisterEvent ==
    /\ pc = "engine"
    /\ last_call.calls < MaxCalls
    /\ \E at_age \in {1, MaxEpochs},
          primary_entity \in DOMAIN entities \cup {None},
          secondary_entities \in ArrangementsUpTo(DOMAIN entities, MaxSecondary),
          explicit \in OfType(entities, LOCATION) \cup {None} :
          LET W == register_event(Current, "custom", at_age, primary_entity,
                                  secondary_entities,
                                  [EmptyData EXCEPT !.location_id = explicit])
          IN /\ entities' = W.e
             /\ relations' = W.r
             /\ next_id' = W.n
             /\ last_call' = [called |-> TRUE, calls |-> last_call.calls + 1,
                              method |-> "register_event", at_age |-> at_age,
                              primary_entity |-> primary_entity,
                              secondary_entities |-> secondary_entities,
                              explicit |-> explicit, event |-> make_id(next_id),
                              entities |-> entities, relations |-> relations,
                              raised |-> W.x]
    /\ UNCHANGED <<relation_types, age, pc, all_events, history, target_epochs,
                   is_running, rolls, steps, exc, last_resolve, last_move, store,
                   layout, vecs, threads>>

NextEvents ==
    \/ NewEngine
    \/ CallRegisterEvent

SpecEvents == Init /\ [][NextEvents]_vars

(***************************************************************************)
(* The conflict calls of an epoch on a world in which expansions of the    *)
(* first two epochs have brought three factions into one location.         *)
(***************************************************************************)
\* pairs whose roll succeeds in one _spawn_political_conflicts
MaxPairs == 3

\* calls made on a crowded world
MaxPasses == 2

unabsorbed_factions(e) ==
    SortedSeq({f \in OfType(e, FACTION) : "absorbed" \notin e[f].tags})

\* an epoch of evolve in which no roll succeeds but those of the expansions
\* in plan: leaders are ensured, the expansions run, the spatial data is synced
quiet_epoch(W, plan, at_age) ==
    LET W1 == ensure_leaders(W, unabsorbed_factions(W.e), at_age)
        W2 == IF W1.x # "" THEN W1
              ELSE process_expansions(W1, SortedSeq(expansion_factions(W1.e)),
                                      plan, at_age)
    IN IF W2.x # "" THEN W2 ELSE sync_spatial_data(W2)

\* the worlds two such epochs after W0 that hold a location with three
\* factions _spawn_political_conflicts pairs up
crowded_worlds(W0) ==
    {W2 \in UNION {{quiet_epoch(W1, p2, 2) : p2 \in expansion_plans(W1, MaxLucky)}
                   : W1 \in {quiet_epoch(W0, p1, 1) :
                                p1 \in expansion_plans(W0, MaxLucky)}} :
        /\ W2.x = ""
        /\ \E loc \in OfType(W2.e, LOCATION) : Len(political_factions(W2.e, loc)) >= 3}

\* the crowded world with the leaders of its third epoch
led_world(W) ==
    ensure_leaders(World(W.e, W.r, W.n, "", <<>>), unabsorbed_factions(W.e), 3)

\* the new engine runs two quiet epochs and enters its third: age is
\* incremented, leaders are ensured
NewCrowdedEngine ==
    /\ pc = "engine"
    /\ age = 1
    /\ ~last_call.called
    /\ \E V \in {led_world(W) : W \in crowded_worlds(Current)} :
          /\ V.x = ""
          /\ entities' = V.e
          /\ relations' = V.r
          /\ next_id' = V.n
    /\ age' = 3
    /\ UNCHANGED <<relation_types, pc, all_events, history, target_epochs,
                   is_running, rolls, steps, exc, last_resolve, last_move,
                   store, aux>>

CallSpawnPass ==
    /\ last_call.calls < MaxPasses
    /\ \E lucky \in SubsetsUpTo(political_rolls(Current), MaxPairs) :
          SystemCall("spawn_political_conflicts",
                     spawn_political_conflicts(Current,
                         SortedSeq(OfType(entities, LOCATION)),
                         active_global_wars(entities), lucky, age))

CallResolvePass ==
    /\ last_call.calls < MaxPasses
    /\ \E W \in resolve_conflicts(Current, age) :
          SystemCall("resolve_conflicts", W)

NextCrowd ==
    \/ NewEngine
    \/ NewCrowdedEngine
    \/ CallSpawnPass
    \/ CallResolvePass

SpecCrowd == Init /\ [][NextCrowd]_vars

(***************************************************************************)
(* The crowded worlds followed past a resolve pass: into the next epoch,   *)
(* where with no decay and no belief roll succeeding the first thing       *)
(* evolve changes is what _ensure_leaders adds, and over quiet epochs to a *)
(* call of _spawn_civil_wars.                                              *)
(***************************************************************************)
CallEnsureLeaders ==
    /\ pc = "engine"
    /\ last_call.called
    /\ last_call.method = "resolve_conflicts"
    /\ LET W == ensure_leaders(Current, unabsorbed_factions(entities), age + 1)
       IN /\ entities' = W.e
          /\ relations' = W.r
          /\ next_id' = W.n
          /\ exc' = W.x
          /\ pc' = IF W.x # "" THEN "raised" ELSE "engine"
          /\ last_call' = [called |-> TRUE, calls |-> last_call.calls + 1,
                           method |-> "ensure_leaders", entities |-> entities,
                           relations |-> relations, raised |-> W.x]
    /\ age' = age + 1
    /\ UNCHANGED <<relation_types, all_events, history, target_epochs,
                   is_running, rolls, steps, last_resolve, last_move, store,
                   layout, vecs, threads>>

RECURSIVE quiet_epochs(_, _, _)
\* the epochs first..last of evolve with no roll succeeding
quiet_epochs(W, first, last) ==
    IF first > last \/ W.x # "" THEN W
    ELSE quiet_epochs(quiet_epoch(W, {}, first), first + 1, last)

\* the world _spawn_civil_wars(at_age) finds when every epoch since the last
\* call was quiet: the leaders of epoch at_age have been ensured
civil_war_eve(W, first, at_age) ==
    LET V == quiet_epochs(W, first, at_age - 1)
    IN IF V.x # "" THEN V ELSE ensure_leaders(V, unabsorbed_factions(V.e), at_age)

\* the active conflicts a resolve pass does not skip
resolvable(W) == {c \in active_conflicts(W.e) : Len(valid_factions(W, c)) >= 2}

\* _spawn_civil_wars in the next epoch or in the twentieth, reached over quiet
\* epochs; rebels are the absorbed factions whose roll is under 0.1
CallSpawnCivilWars ==
    /\ pc = "engine"
    /\ last_call.called
    /\ last_call.method = "resolve_conflicts"
    /\ resolvable(Current) = {}
    /\ \E at_age \in {age + 1, CivilWarPeriod} :
          \E W0 \in {civil_war_eve(Current, age + 1, at_age)} :
             \E rebels \in SUBSET civil_war_candidates(W0.e) :
                \E W \in {spawn_civil_wars(W0, SortedSeq(civil_war_candidates(W0.e)),
                                          rebels, at_age)} :
                   /\ W0.x = ""
                   /\ entities' = W.e
                   /\ relations' = W.r
                   /\ next_id' = W.n
                   /\ exc' = W.x
                   /\ pc' = IF W.x # "" THEN "raised" ELSE "engine"
                   /\ age' = at_age
                   /\ last_call' = [called |-> TRUE, calls |-> last_call.calls + 1,
                                    method |-> "spawn_civil_wars",
                                    entities |-> W0.e, relations |-> W0.r,
                                    raised |-> W.x]
    /\ UNCHANGED <<relation_types, all_events, history, target_epochs,
                   is_running, rolls, steps, last_resolve, last_move, store,
                   layout, vecs, threads>>

NextAftermath ==
    \/ NewEngine
    \/ NewCrowdedEngine
    \/ CallSpawnPass
    \/ CallResolvePass
    \/ CallEnsureLeaders
    \/ CallSpawnCivilWars

SpecAftermath == Init /\ [][NextAftermath]_vars

(***************************************************************************)
(* The crowded worlds followed past a resolve pass to a call of            *)
(* process_transformations: a destruction has left ruins behind.           *)
(***************************************************************************)
\* rolls that succeed in one process_transformations
MaxRuleRolls == 2

\* the (location, rule) rolls of the locations a rule can ever apply to
ruin_rolls(W, at_age) ==
    {t \in transformation_rolls(W, at_age) :
        \E k \in 1..Len(TransformationRules) :
            TransformationRules[k].requires_tag \in W.e[t[1]].tags}

CallProcessTransformations ==
    /\ last_call.called
    /\ last_call.method = "resolve_conflicts"
    /\ \E lucky \in SubsetsUpTo(ruin_rolls(Current, age), MaxRuleRolls) :
          SystemCall("process_transformations",
                     process_transformations(Current,
                         SortedSeq(OfType(entities, LOCATION)), lucky, age))

NextRuins ==
    \/ NewEngine
    \/ NewCrowdedEngine
    \/ CallSpawnPass
    \/ CallResolvePass
    \/ CallProcessTransformations

SpecRuins == Init /\ [][NextRuins]_vars

(***************************************************************************)
(* Biome capacity: discoveries and conflicts, called one by one on the     *)
(* generated and the crowded worlds.                                       *)
(***************************************************************************)
CallProcessNewLandDiscovery ==
    \E lucky \in SubsetsUpTo(OfType(entities, BIOME), MaxLucky) :
       SystemCall("process_new_land_discovery",
                  process_new_land_discovery(Current, SortedSeq(OfType(entities, BIOME)),
                                             lucky, age))

CallSpawnDispute ==
    \E lucky \in SubsetsUpTo(political_rolls(Current), MaxLucky) :
       SystemCall("spawn_political_conflicts",
                  spawn_political_conflicts(Current,
                      SortedSeq(OfType(entities, LOCATION)),
                      active_global_wars(entities), lucky, age))

CallResolveDispute ==
    /\ last_call.called
    /\ last_call.method = "spawn_political_conflicts"
    /\ \E W \in resolve_conflicts(Current, age) :
          SystemCall("resolve_conflicts", W)

NextLand == NewEngine \/ NewCrowdedEngine \/ CallProcessNewLandDiscovery \/ CallSpawnDispute \/ CallResolveDispute

SpecLand == Init /\ [][NextLand]_vars

(***************************************************************************)
(* WorldGenerator.generate_from_spatial_layout over a registry whose biome *)
(* templates have a capacity drawn from 1..MaxCapacity (BiomeTemplate      *)
(* requires capacity >= 1).  The graph under construction is kept in       *)
(* entities and relations; step 1 copies the template's capacity into the  *)
(* biome entity, which is where step 2 of the model reads it back.         *)
(***************************************************************************)
MaxCapacity == 4

\* the biome entities of step 1 under templates of the given capacity
place_biomes(capacity) ==
    LET W0 == gen_biomes(World(<<>>, <<>>, 1, "", <<>>), 1)
    IN [W0 EXCEPT !.e = [i \in DOMAIN W0.e |-> [W0.e[i] EXCEPT !.capacity = capacity]]]

PlaceBiomes ==
    /\ pc = "idle"
    /\ \E capacity \in 1..MaxCapacity :
          \E W \in {place_biomes(capacity)} :
             /\ entities' = W.e
             /\ next_id' = W.n
    /\ pc' = "placing_locations"
    /\ UNCHANGED <<relations, relation_types, age, all_events, history,
                   target_epochs, is_running, rolls, steps, exc, last_resolve,
                   last_move, store, aux>>

\* the biomes whose randint has no value to return
empty_ranges(e) ==
    {b \in OfType(e, BIOME) :
        /\ BiomeTemplates[e[b].definition_id].allowed_locations # <<>>
        /\ location_range(e[b].capacity) = {}}

PlaceLocations ==
    /\ pc = "placing_locations"
    /\ empty_ranges(entities) = {}
    /\ \E res_roll \in 1..2,
          num_locations \in [OfType(entities, BIOME) -> 2..3],
          settled \in SubsetsUpTo(OfType(entities, BIOME) \X (1..3), MaxInitFactions) :
          /\ \A b \in OfType(entities, BIOME) :
                num_locations[b] \in location_range(entities[b].capacity)
          /\ \E W \in {fill_biomes(Current, num_locations, res_roll, settled)} :
                /\ entities' = W.e
                /\ relations' = W.r
                /\ next_id' = W.n
                /\ exc' = W.x
                /\ pc' = IF W.x # "" THEN "raised" ELSE "generated"
    /\ relation_types' = GeneratorRelationTypes
    /\ UNCHANGED <<age, all_events, history, target_epochs, is_running, rolls,
                   steps, last_resolve, last_move, store, aux>>

\* random.randint raises: generate_from_spatial_layout returns no world
PlaceLocationsRaises ==
    /\ pc = "placing_locations"
    /\ empty_ranges(entities) # {}
    /\ exc' = "ValueError"
    /\ pc' = "raised"
    /\ UNCHANGED <<entities, relations, relation_types, next_id, age, all_events,
                   history, target_epochs, is_running, rolls, steps, last_resolve,
                   last_move, store, aux>>

NextGenerate == PlaceBiomes \/ PlaceLocations \/ PlaceLocationsRaises

SpecGenerate == Init /\ [][NextGenerate]_vars

(***************************************************************************)
(* Resources over the epochs: of evolve only process_resource_decay and,   *)
(* in the epochs of the growth block, process_resource_regrowth; no other  *)
(* roll succeeds.  The generated world's resources come from a registry    *)
(* whose biomes offer res_wood and res_ore.                                *)
(***************************************************************************)
with_resources(e, defs) ==
    [i \in DOMAIN e |->
        IF i \in DOMAIN defs THEN [e[i] EXCEPT !.definition_id = defs[i]] ELSE e[i]]

DrawResources ==
    /\ pc = "engine"
    /\ age = 1
    /\ ~last_call.called
    /\ \E defs \in [OfType(entities, RESOURCE) -> DOMAIN ResourceTemplates] :
          /\ entities' = with_resources(entities, defs)
          /\ entities' # entities
    /\ UNCHANGED <<relations, next_id, relation_types, age, pc, all_events,
                   history, target_epochs, is_running, rolls, steps, exc,
                   last_resolve, last_move, store, aux>>

\* what a system called by evolve at at_age leaves behind
EpochCall(method, W, at_age) ==
    /\ pc = "engine"
    /\ entities' = W.e
    /\ relations' = W.r
    /\ next_id' = W.n
    /\ exc' = W.x
    /\ pc' = IF W.x # "" THEN "raised" ELSE "engine"
    /\ age' = at_age
    /\ last_call' = [called |-> TRUE, calls |-> last_call.calls + 1,
                     method |-> method, entities |-> entities,
                     relations |-> relations, raised |-> W.x]
    /\ UNCHANGED <<relation_types, all_events, history, target_epochs,
                   is_running, rolls, steps, last_resolve, last_move, store,
                   layout, vecs, threads>>

\* the growth block of evolve runs at this age
growth_epoch(at_age) == at_age % GrowthPeriod = 0

\* process_resource_decay of the first epoch, or of the epoch after the one
\* whose last call is behind
EpochResourceDecay ==
    /\ last_call.called => last_call.method = "process_resource_regrowth" \/ ~growth_epoch(age)
    /\ \E at_age \in {IF last_call.called THEN age + 1 ELSE age} :
          /\ at_age <= MaxEpochs
          /\ \E depleting \in SubsetsUpTo(decay_resources(entities), MaxLucky) :
                EpochCall("process_resource_decay",
                          process_resource_decay(Current,
                              SortedSeq(decay_resources(entities)), depleting, at_age),
                          at_age)

EpochResourceRegrowth ==
    /\ last_call.called
    /\ last_call.method = "process_resource_decay"
    /\ growth_epoch(age)
    /\ \E regrowing \in SubsetsUpTo(regrowth_resources(entities), MaxLucky) :
          EpochCall("process_resource_regrowth",
                    process_resource_regrowth(Current,
                        SortedSeq(regrowth_resources(entities)), regrowing, age),
                    age)

NextResources == NewEngine \/ DrawResources \/ EpochResourceDecay \/ EpochResourceRegrowth

SpecResources == Init /\ [][NextResources]_vars

(***************************************************************************)
(* Two run_simulation calls on one SimulationService.  The /run handler    *)
(* hands each call to BackgroundTasks, which runs a plain function on a    *)
(* worker thread; nothing orders the threads, so a thread may be suspended *)
(* between any two statements.  Each thread has its own world and engine;  *)
(* is_running is the one field they share.                                 *)
(***************************************************************************)
\* the positions inside the try block
InBody == {"body", "loop", "save"}

moved(c, where) == [threads EXCEPT ![c].at = where]

RaceFrame ==
    UNCHANGED <<entities, relations, relation_types, next_id, age, pc, all_events,
                history, target_epochs, rolls, steps, exc, last_resolve,
                last_move, store, last_call, layout, vecs>>

\* background_tasks.add_task(service.run_simulation, req.epochs)
StartCall(c) ==
    /\ threads[c].at = "ready"
    /\ \E n \in 1..MaxEpochs : threads' = [threads EXCEPT ![c] = [at |-> "check", left |-> n]]
    /\ UNCHANGED is_running
    /\ RaceFrame

\* if self.is_running: raise Exception(...)
CheckRunning(c) ==
    /\ threads[c].at = "check"
    /\ threads' = moved(c, IF is_running THEN "rejected" ELSE "set")
    /\ UNCHANGED is_running
    /\ RaceFrame

\* self.is_running = True
SetRunning(c) ==
    /\ threads[c].at = "set"
    /\ is_running' = TRUE
    /\ threads' = moved(c, "body")
    /\ RaceFrame

\* the try block up to the loop: the world is generated and the engine
\* built, or an exception leaves through finally
EnterLoop(c) ==
    /\ threads[c].at = "body"
    /\ \E outcome \in {"loop", "finally_raising"} : threads' = moved(c, outcome)
    /\ UNCHANGED is_running
    /\ RaceFrame

\* one iteration of the for loop; an exception in evolve is caught and the
\* function goes on to save the world
RunEpoch(c) ==
    /\ threads[c].at = "loop"
    /\ \/ threads[c].left > 0
          /\ threads' = [threads EXCEPT ![c].left = @ - 1]
       \/ threads' = moved(c, "save")
    /\ UNCHANGED is_running
    /\ RaceFrame

\* save_world_to_json(world, ...)
SaveFinalWorld(c) ==
    /\ threads[c].at = "save"
    /\ threads' = moved(c, "finally")
    /\ UNCHANGED is_running
    /\ RaceFrame

\* finally: self.is_running = False
ResetRunning(c) ==
    /\ threads[c].at \in {"finally", "finally_raising"}
    /\ is_running' = FALSE
    /\ threads' = moved(c, IF threads[c].at = "finally" THEN "returned" ELSE "raised")
    /\ RaceFrame

NextRace ==
    \E c \in Callers :
       \/ StartCall(c)
       \/ CheckRunning(c)
       \/ SetRunning(c)
       \/ EnterLoop(c)
       \/ RunEpoch(c)
       \/ SaveFinalWorld(c)
       \/ ResetRunning(c)

SpecRace == Init /\ [][NextRace]_vars

(***************************************************************************)
(* The crowded worlds of a registry whose faction templates differ in      *)
(* culture: the generator copies the template's culture_vector into each   *)
(* faction it creates, and an expansion copies it into the splinter.       *)
(***************************************************************************)
\* the culture vectors of the faction templates
TemplateCultures ==
    {ZeroVector,
     [aggression |-> AxisMin, magic_affinity |-> AxisMin, collectivism |-> 0],
     [aggression |-> AxisMax, magic_affinity |-> AxisMax, collectivism |-> 0]}

\* the generated world with the given culture for each of its factions
with_cultures(e, cultures) ==
    [i \in DOMAIN e |->
        IF i \in DOMAIN cultures
        THEN [e[i] EXCEPT !.data.culture_vector = cultures[i],
                          !.data.has_culture = TRUE]
        ELSE e[i]]

\* the engine over a world generated from such a registry
DrawCultures ==
    /\ pc = "engine"
    /\ age = 1
    /\ ~last_call.called
    /\ \E cultures \in [OfType(entities, FACTION) -> TemplateCultures] :
          /\ entities' = with_cultures(entities, cultures)
          /\ entities' # entities
    /\ UNCHANGED <<relations, next_id, relation_types, age, pc, all_events,
                   history, target_epochs, is_running, rolls, steps, exc,
                   last_resolve, last_move, store, aux>>

NextTension ==
    \/ NewEngine
    \/ DrawCultures
    \/ NewCrowdedEngine
    \/ CallSpawnPass

SpecTension == Init /\ [][NextTension]_vars

(***************************************************************************)
(* SpatialLayoutGenerator.generate_layout, one loop iteration per step.    *)
(* random.shuffle fixes the order of the cells before the loops run; the   *)
(* model draws that order as the loops consume it: skipped holds, in       *)
(* order, the free cells a scan has already gone over, and the cells no    *)
(* scan has reached yet follow them, edge cells before inner cells.        *)
(***************************************************************************)
\* the largest grid
MaxWidth == 3
MaxHeight == 3

\* the largest number of distinct biomes in biome_pool
MaxPool == 2

\* the number of distinct topics taboo and revered are drawn from
MaxTopics == 1

\* the ids a caller passes in biome_pool; biome_plains is not registered
PoolBiomes == DOMAIN BiomeTemplates \cup {"biome_plains"}

\* SpatialLayout._init_cells: the coordinates of the rectangle
Coords(width, height) == (0..(width - 1)) \X (0..(height - 1))

\* the four candidates of is_edge and neighbors
adjacent(coord) ==
    {<<coord[1] - 1, coord[2]>>, <<coord[1] + 1, coord[2]>>,
     <<coord[1], coord[2] - 1>>, <<coord[1], coord[2] + 1>>}

\* SpatialLayout.is_edge
is_edge(L, coord) ==
    /\ coord \in DOMAIN L.cells
    /\ \/ \E nb \in adjacent(coord) : nb \notin DOMAIN L.cells
       \/ coord[1] = 0
       \/ coord[1] = L.width - 1
       \/ coord[2] = 0
       \/ coord[2] = L.height - 1

\* SpatialLayout.neighbors: the candidates inside the rectangle
neighbors(L, coord) == adjacent(coord) \cap Coords(L.width, L.height)

\* layout.cells.get(nb): "" for a free cell and for a cell the mask cut
cell_biome(L, nb) == IF nb \in DOMAIN L.cells THEN L.cells[nb] ELSE ""

biome_tags(biome_id) ==
    IF Registered(BiomeTemplates, biome_id) THEN BiomeTemplates[biome_id].tags ELSE {}

\* the constraint _build_constraints makes for a registered biome; an
\* unregistered biome has none, or the always-true one of the fallback
constraint(biome_id, coord, L) ==
    IF ~Registered(BiomeTemplates, biome_id) THEN TRUE
    ELSE /\ ~("edge_only" \in biome_tags(biome_id) /\ ~is_edge(L, coord))
         /\ ~("no_edge" \in biome_tags(biome_id) /\ is_edge(L, coord))
         /\ \A nb \in neighbors(L, coord) :
               ~(/\ cell_biome(L, nb) # ""
                 /\ cell_biome(L, nb) \in BiomeTemplates[biome_id].forbidden_neighbors)

\* SpatialLayoutGenerator._can_place_biome
can_place_biome(biome_id, coord, L) ==
    /\ constraint(biome_id, coord, L)
    /\ "coastal" \in biome_tags(biome_id) =>
          \A nb \in neighbors(L, coord) :
             ~(/\ is_edge(L, nb)
               /\ cell_biome(L, nb) # ""
               /\ Registered(BiomeTemplates, cell_biome(L, nb))
               /\ "coastal" \notin biome_tags(cell_biome(L, nb)))

\* SpatialLayoutGenerator._apply_organic_mask: the sets of cells it can
\* leave.  dist_sq is num / den; a cell is cut when dist_sq + noise > 0.90
\* for a noise in [-0.1, 0.1]
apply_organic_mask(width, height) ==
    IF width <= 4 \/ height <= 4 THEN {Coords(width, height)}
    ELSE LET den == width * width * height * height
             num(c) == (2 * c[1] - width) * (2 * c[1] - width) * height * height
                       + (2 * c[2] - height) * (2 * c[2] - height) * width * width
             always == {c \in Coords(width, height) : num(c) > den}
             maybe == {c \in Coords(width, height) : 10 * num(c) > 8 * den} \ always
         IN {Coords(width, height) \ (always \cup cut) : cut \in SUBSET maybe}

free_cells(L) == {c \in DOMAIN L.cells : L.cells[c] = ""}

\* the free cells no scan has reached yet: those of layout.edge_cells, and
\* the inner ones
unrevealed_edge(L) == {c \in free_cells(L) \ Range(L.skipped) : is_edge(L, c)}

unrevealed_inner(L) == {c \in free_cells(L) \ Range(L.skipped) : ~is_edge(L, c)}

\* the free cells on which a biome passes the check
passing_cells(L, biome_id) == {c \in free_cells(L) : can_place_biome(biome_id, c, L)}

\* a sequence without its i-th element
RemoveAt(s, i) == [k \in 1..(Len(s) - 1) |-> IF k < i THEN s[k] ELSE s[k + 1]]

\* "for coord in all_coords_ordered" for a biome that passes on the cells
\* ok: the cell the scan stops at (found = FALSE: no cell passes) and the
\* free cells it has gone over, in the order of all_coords_ordered
scan_outcomes(L, ok) ==
    LET edge == unrevealed_edge(L)
        inner == unrevealed_inner(L)
        first == {i \in 1..Len(L.skipped) :
                     /\ L.skipped[i] \in ok
                     /\ \A j \in 1..(i - 1) : L.skipped[j] \notin ok}
    IN IF first # {}
       THEN {[found |-> TRUE, target |-> L.skipped[i],
              skipped |-> RemoveAt(L.skipped, i)] : i \in first}
       ELSE IF edge \cap ok # {}
       THEN {[found |-> TRUE, target |-> t, skipped |-> L.skipped \o before] :
                t \in edge \cap ok,
                before \in ArrangementsUpTo(edge \ ok, Cardinality(edge \ ok))}
       ELSE IF inner \cap ok # {}
       THEN {[found |-> TRUE, target |-> t,
              skipped |-> L.skipped \o edges \o before] :
                t \in inner \cap ok,
                edges \in Arrangements(edge, Cardinality(edge)),
                before \in ArrangementsUpTo(inner \ ok, Cardinality(inner \ ok))}
       ELSE {[found |-> FALSE, target |-> <<>>,
              skipped |-> L.skipped \o edges \o inners] :
                edges \in Arrangements(edge, Cardinality(edge)),
                inners \in Arrangements(inner, Cardinality(inner))}

\* one iteration of the loop of step 1 whose scan ended as o: the biome is
\* placed on the cell found, else the fallback on the first free cell
place_guaranteed(L, biome_id, o) ==
    LET done == [L EXCEPT !.todo = @ \ {biome_id},
                          !.phase = IF L.todo \ {biome_id} = {} THEN "fill"
                                    ELSE "guaranteed"]
    IN IF o.found
       THEN [done EXCEPT !.cells[o.target] = biome_id,
                         !.skipped = o.skipped,
                         !.placed = @ + 1]
       ELSE IF o.skipped # <<>> /\ L.placed < L.cells_to_fill
       THEN [done EXCEPT !.cells[o.skipped[1]] = L.fallback,
                         !.unchecked = @ \cup {o.skipped[1]},
                         !.skipped = Tail(o.skipped),
                         !.placed = @ + 1]
       ELSE [done EXCEPT !.skipped = o.skipped]

\* the next cell of remaining_coords
fill_coords(L) ==
    IF L.skipped # <<>> THEN {L.skipped[1]}
    ELSE IF unrevealed_edge(L) # {} THEN unrevealed_edge(L)
    ELSE unrevealed_inner(L)

\* a step 2 that takes the first candidate without the check
fill_choices_unchecked(L, coord) == L.pool \cup {L.fallback}

\* the biomes step 2 can choose for a cell: the first of the shuffled
\* candidates that passes, else the fallback
fill_choices(L, coord) ==
    IF \E b \in L.pool : can_place_biome(b, coord, L)
    THEN {b \in L.pool : can_place_biome(b, coord, L)}
    ELSE {L.fallback}

\* one iteration of the loop of step 2
fill_cell(L, coord, chosen) ==
    [L EXCEPT !.cells[coord] = chosen,
              !.unchecked = IF \E b \in L.pool : can_place_biome(b, coord, L)
                            THEN @ ELSE @ \cup {coord},
              !.skipped = IF L.skipped # <<>> THEN Tail(L.skipped) ELSE L.skipped,
              !.placed = @ + 1]

\* generate_layout up to step 1, as WorldGenerator.generate calls it: the
\* fallback is a biome of the pool, biome_plains for an empty pool
GenerateLayout ==
    /\ layout.phase = "none"
    /\ \E width \in 1..MaxWidth, height \in 1..MaxHeight,
          biome_pool \in {p \in SUBSET PoolBiomes : Cardinality(p) <= MaxPool} :
          \E fallback_biome_id \in (IF biome_pool = {} THEN {"biome_plains"}
                                    ELSE biome_pool),
             available_coords \in apply_organic_mask(width, height) :
             layout' = [phase |-> IF biome_pool = {} THEN "fill" ELSE "guaranteed",
                        width |-> width, height |-> height,
                        pool |-> biome_pool, fallback |-> fallback_biome_id,
                        cells |-> [c \in available_coords |-> ""],
                        unchecked |-> {}, skipped |-> <<>>, todo |-> biome_pool,
                        placed |-> 0,
                        cells_to_fill |-> Cardinality(available_coords)]
    /\ UNCHANGED <<entities, relations, relation_types, next_id, age, pc,
                   all_events, history, target_epochs, is_running, rolls, steps,
                   exc, last_resolve, last_move, store, last_call, vecs,
                   threads>>

\* step 1, the next biome of the shuffled unique_biomes
PlaceGuaranteed ==
    /\ layout.phase = "guaranteed"
    /\ \E biome_id \in layout.todo :
          IF layout.placed >= layout.cells_to_fill
          THEN layout' = [layout EXCEPT !.phase = "fill", !.todo = {}]
          ELSE \E o \in scan_outcomes(layout, passing_cells(layout, biome_id)) :
                  layout' = place_guaranteed(layout, biome_id, o)
    /\ UNCHANGED <<entities, relations, relation_types, next_id, age, pc,
                   all_events, history, target_epochs, is_running, rolls, steps,
                   exc, last_resolve, last_move, store, last_call, vecs,
                   threads>>

\* step 2, the next cell of remaining_coords
FillCell ==
    /\ layout.phase = "fill"
    /\ free_cells(layout) # {}
    /\ layout.placed < layout.cells_to_fill
    /\ \E coord \in fill_coords(layout) :
          \E chosen \in fill_choices(layout, coord) :
             layout' = fill_cell(layout, coord, chosen)
    /\ UNCHANGED <<entities, relations, relation_types, next_id, age, pc,
                   all_events, history, target_epochs, is_running, rolls, steps,
                   exc, last_resolve, last_move, store, last_call, vecs,
                   threads>>

\* return layout
ReturnLayout ==
    /\ layout.phase = "fill"
    /\ free_cells(layout) = {} \/ layout.placed >= layout.cells_to_fill
    /\ layout' = [layout EXCEPT !.phase = "returned"]
    /\ UNCHANGED <<entities, relations, relation_types, next_id, age, pc,
                   all_events, history, target_epochs, is_running, rolls, steps,
                   exc, last_resolve, last_move, store, last_call, vecs,
                   threads>>

NextLayout ==
    \/ GenerateLayout
    \/ PlaceGuaranteed
    \/ FillCell
    \/ ReturnLayout

SpecLayout == Init /\ [][NextLayout]_vars

(***************************************************************************)
(* CultureVector.__add__ on vectors the constructor accepts: three vectors *)
(* are drawn and the sums a + b, b + a, (a + b) + c, a + (b + c) and a + a *)
(* are evaluated as Python evaluates them, an exception of an inner sum    *)
(* ending the whole expression.                                            *)
(***************************************************************************)
TopicNames == <<"ancestors", "fire", "gold">>

\* the topics taboo and revered are drawn from
Topics == {TopicNames[i] : i \in 1..MaxTopics}

\* the axis values drawn: both ends of the validated range and the default
AxisSamples == {AxisMin, 0, AxisMax}

\* the instances CultureVector(...) constructs without an error
CultureVectors ==
    {v @@ [taboo |-> t, revered |-> r] :
        v \in [Axes -> AxisSamples], t \in SUBSET Topics, r \in SUBSET Topics}

\* CultureVector.get_numerical_axes
get_numerical_axes(v) == [k \in Axes |-> v[k]]

\* CultureVector(**new_data): the field constraints ge=-20, le=20 are checked
CultureVector(new_data) ==
    IF VectorValid(new_data)
    THEN [x |-> "", v |-> new_data]
    ELSE [x |-> "ValidationError"]

\* CultureVector.__add__
culture_add(a, b) ==
    CultureVector(VectorAdd(get_numerical_axes(a), get_numerical_axes(b))
                  @@ [taboo |-> a.taboo \cup b.taboo,
                      revered |-> a.revered \cup b.revered])

\* left + right where each operand is the outcome of an earlier expression
plus(left, right) ==
    IF left.x # "" THEN left
    ELSE IF right.x # "" THEN right
    ELSE culture_add(left.v, right.v)

operand(v) == [x |-> "", v |-> v]

DrawVectors ==
    /\ pc = "idle"
    /\ vecs.phase = "none"
    /\ \E a \in CultureVectors, b \in CultureVectors, c \in CultureVectors :
          vecs' = [phase |-> "drawn", a |-> a, b |-> b, c |-> c]
    /\ UNCHANGED <<entities, relations, relation_types, next_id, age, pc,
                   all_events, history, target_epochs, is_running, rolls, steps,
                   exc, last_resolve, last_move, store, last_call, layout,
                   threads>>

AddVectors ==
    /\ vecs.phase = "drawn"
    /\ vecs' = [phase |-> "added", a |-> vecs.a, b |-> vecs.b, c |-> vecs.c,
                ab |-> plus(operand(vecs.a), operand(vecs.b)),
                ba |-> plus(operand(vecs.b), operand(vecs.a)),
                ab_c |-> plus(plus(operand(vecs.a), operand(vecs.b)),
                              operand(vecs.c)),
                a_bc |-> plus(operand(vecs.a),
                              plus(operand(vecs.b), operand(vecs.c))),
                aa |-> plus(operand(vecs.a), operand(vecs.a))]
    /\ UNCHANGED <<entities, relations, relation_types, next_id, age, pc,
                   all_events, history, target_epochs, is_running, rolls, steps,
                   exc, last_resolve, last_move, store, last_call, layout,
                   threads>>

\* the weights passed to distance_to: none (every axis counts 0.1) or those
\* of _calculate_cultural_tension, in hundredths
WeightSamples == {<<>>, TensionWeights}

\* CultureVector.distance_to with the taboo and revered sets, in hundredths:
\* 1.5 for every taboo of one side the other reveres, 0.5 off for every
\* value both revere, floored at 0
culture_distance(a, b, weights) ==
    LET axes == distance_to(get_numerical_axes(a), get_numerical_axes(b), weights)
        conflict_set_1 == a.taboo \cap b.revered
        conflict_set_2 == b.taboo \cap a.revered
        shared_values == a.revered \cap b.revered
        tension == axes + (Cardinality(conflict_set_1) + Cardinality(conflict_set_2)) * 150
                        - Cardinality(shared_values) * 50
    IN IF tension < 0 THEN 0 ELSE tension

MeasureDistance ==
    /\ pc = "idle"
    /\ vecs.phase = "none"
    /\ \E a \in CultureVectors, b \in CultureVectors, weights \in WeightSamples :
          vecs' = [phase |-> "measured", a |-> a, b |-> b, weights |-> weights,
                   a_to_a |-> culture_distance(a, a, weights),
                   a_to_b |-> culture_distance(a, b, weights),
                   b_to_a |-> culture_distance(b, a, weights)]
    /\ UNCHANGED <<entities, relations, relation_types, next_id, age, pc,
                   all_events, history, target_epochs, is_running, rolls, steps,
                   exc, last_resolve, last_move, store, last_call, layout,
                   threads>>

NextVector ==
    \/ DrawVectors
    \/ AddVectors
    \/ MeasureDistance

SpecVector == Init /\ [][NextVector]_vars

(***************************************************************************)
(* Properties                                                              *)
(***************************************************************************)
\* C1, as stated: every relation of the graph joins an entity of the
\* relation type's from_type to an entity of its to_type.
C1_EndpointTypesMatch ==
    \A k \in 1..Len(relations) :
        /\ entities[relations[k].from_entity].type
              = RelationTypeDefs[relations[k].relation_type].from_type
        /\ entities[relations[k].to_entity].type
              = RelationTypeDefs[relations[k].relation_type].to_type

\* C2: both endpoints of every relation are ids of the entity table.
C2_EndpointsExist ==
    \A k \in 1..Len(relations) :
        /\ relations[k].from_entity \in DOMAIN entities
        /\ relations[k].to_entity \in DOMAIN entities

\* C2 witness: register_event has linked a participant to an event and
\* move_entity has rewritten a relation
C2_Witness ==
    /\ last_move.called
    /\ \E k \in 1..Len(relations) :
          /\ relations[k].relation_type \in {"affected_by", "occurred_at"}
          /\ entities[relations[k].to_entity].type = EVENT

\* C3: no step removes an entity from the entity table.
C3_NeverDeleted == [][DOMAIN entities \subseteq DOMAIN entities']_vars

\* C3 witness: a destruction has ruined a location and killed its inhabitants,
\* and all of them are still in the table
C3_Witness ==
    /\ \E l \in OfType(entities, LOCATION) : "ruins" \in entities[l].tags
    /\ \E f \in OfType(entities, FACTION) :
          {"dead", "inactive"} \cap entities[f].tags # {}

\* C4: within an epoch the systems run in the fixed order, the growth block
\* only in epochs divisible by 5; a conflict spawned in an epoch is among the
\* conflicts that epoch's resolution iterates over; age grows by exactly one,
\* and only when an epoch begins.
C4_EpochOrder ==
    /\ [](LET growth == IF age % 5 = 0
                        THEN <<"discovery", "new_resources", "regrowth">>
                        ELSE <<>>
              order == <<"leader_decay", "resource_decay", "beliefs",
                         "ensure_leaders", "religious_wars", "civil_wars",
                         "political_conflicts", "raids", "bosses">>
                       \o growth
                       \o <<"overcrowding", "transformations", "expansions",
                            "resolve_conflicts", "sync_spatial">>
          IN /\ Len(steps) <= Len(order)
             /\ \A k \in 1..Len(steps) : steps[k] = order[k]
             /\ pc \in Range(order) => pc = order[Len(steps) + 1]
             /\ pc = "write_events" => steps = order
             /\ last_resolve.called =>
                   \A c \in OfType(entities, CONFLICT) :
                       entities[c].created_at = last_resolve.at_age
                          => c \in last_resolve.active)
    /\ [][\/ age' = age
          \/ age' = age + 1 /\ pc = "loop" /\ pc' = "leader_decay"]_vars

\* C4 witness: a growth epoch has run all its systems and its resolution has
\* seen a conflict spawned in that same epoch
C4_Witness ==
    /\ pc = "write_events"
    /\ age % GrowthPeriod = 0
    /\ "regrowth" \in Range(steps)
    /\ last_resolve.called
    /\ \E c \in last_resolve.active : entities[c].created_at = age

C6_SecondIsAborted ==
    (pc = "resolve_conflicts") =>
        \A c \in OfType(entities, CONFLICT) :
            (entities[c].has_data /\ entities[c].data.status = "resolved") =>
                \A o \in resolve_single_conflict(Current, c, age) :
                    o.outcome = "aborted" /\ o.W = Current

\* C6, amended: a resolve_conflicts pass skips every conflict that is already
\* resolved: its record (status, outcome, tags) and the relations that start or
\* end at it are the same after the pass, so no second event is linked to it.
C6_ResolvedSkipped ==
    [][pc = "resolve_conflicts" =>
          \A c \in OfType(entities, CONFLICT) :
              (entities[c].has_data /\ entities[c].data.status = "resolved") =>
                  /\ entities'[c] = entities[c]
                  /\ SelectSeq(relations', LAMBDA rel :
                        rel.from_entity = c \/ rel.to_entity = c)
                     = SelectSeq(relations, LAMBDA rel :
                        rel.from_entity = c \/ rel.to_entity = c)]_vars

\* C6 witness: a resolution pass has run in an epoch after the one that
\* resolved a conflict
C6_Witness ==
    /\ last_resolve.called
    /\ \E c \in OfType(entities, CONFLICT) :
          /\ entities[c].has_data
          /\ entities[c].data.status = "resolved"
          /\ c \notin last_resolve.active
          /\ entities[c].created_at < last_resolve.at_age

\* C7, as stated: no failure inside a system escapes evolve.
C7_NothingEscapes == exc = ""

\* C8, as stated: after an epoch failed the loop goes on, so the run ends
\* only after target_epochs epochs.
C8_LoopContinues == pc = "done" => age = target_epochs

\* C8, amended: an error in an epoch ends the run: one CRITICAL_ERROR line is
\* written for that epoch, it is the last line of the history, no later
\* epoch starts, and the driver goes on to save the world; without an error
\* no such line is written.
C8_ErrorEndsRun ==
    /\ exc = "" =>
          \A k \in 1..Len(history) : history[k].event_type # "CRITICAL_ERROR"
    /\ exc # "" =>
          /\ pc \in {"except", "save", "finally", "done"}
          /\ pc # "except" =>
                /\ history # <<>>
                /\ history[Len(history)] =
                      [age |-> age, event_type |-> "CRITICAL_ERROR"]
                /\ \A k \in 1..(Len(history) - 1) :
                      history[k].event_type # "CRITICAL_ERROR"

\* C8 witness: a run that failed before its last epoch has ended
C8_Witness == pc = "done" /\ exc # "" /\ age < target_epochs

\* C9, as stated: in a loaded world each end of each relation is the very
\* object the entity table holds under that id.
C9_EndpointsShared ==
    pc = "loaded" =>
        \A k \in 1..Len(loaded.relations) :
            /\ \E t \in DOMAIN loaded.table :
                  /\ heap[loaded.table[t]].id
                        = heap[loaded.relations[k].from_entity].id
                  /\ loaded.table[t] = loaded.relations[k].from_entity
            /\ \E t \in DOMAIN loaded.table :
                  /\ heap[loaded.table[t]].id
                        = heap[loaded.relations[k].to_entity].id
                  /\ loaded.table[t] = loaded.relations[k].to_entity

\* C10: after move_entity(entity, new_parent, T) with T registered, the
\* entity's parent_id is new_parent, exactly one relation of type T starts at
\* the entity and it points to new_parent, and the relations of another
\* source or type are the same, in the same order.
C10_MoveEntity ==
    (last_move.called /\ last_move.relation_type \in relation_types) =>
        /\ last_move.parent_id = last_move.new_parent
        /\ Len(SelectSeq(last_move.after, LAMBDA rel :
                  /\ rel.from_entity = last_move.entity
                  /\ rel.relation_type = last_move.relation_type)) = 1
        /\ \A k \in 1..Len(last_move.after) :
              (/\ last_move.after[k].from_entity = last_move.entity
               /\ last_move.after[k].relation_type = last_move.relation_type)
                 => last_move.after[k].to_entity = last_move.new_parent
        /\ SelectSeq(last_move.after, LAMBDA rel :
              ~(/\ rel.from_entity = last_move.entity
                /\ rel.relation_type = last_move.relation_type))
           = SelectSeq(last_move.before, LAMBDA rel :
              ~(/\ rel.from_entity = last_move.entity
                /\ rel.relation_type = last_move.relation_type))

\* C10 witness: the moved entity had a relation of that type to another
\* parent, next to relations of other sources
C10_Witness ==
    /\ last_move.called
    /\ last_move.relation_type \in relation_types
    /\ \E k \in 1..Len(last_move.before) :
          /\ last_move.before[k].from_entity = last_move.entity
          /\ last_move.before[k].relation_type = last_move.relation_type
          /\ last_move.before[k].to_entity # last_move.new_parent
    /\ \E k \in 1..Len(last_move.before) :
          last_move.before[k].from_entity # last_move.entity

\* C11: add_relation with a relation type id that is not registered creates no
\* relation, raises nothing and leaves the entity table and the relation list
\* as they were.
C11_UnknownTypeIsNoOp ==
    (/\ last_call.called
     /\ last_call.method = "add_relation"
     /\ last_call.rel_type_id \notin relation_types) =>
        /\ last_call.raised = ""
        /\ entities = last_call.entities
        /\ relations = last_call.relations

\* C11 witness: add_relation was called with two entities and an unregistered
\* type on a graph that holds relations
C11_Witness ==
    /\ last_call.called
    /\ last_call.method = "add_relation"
    /\ last_call.rel_type_id \notin relation_types
    /\ last_call.from_e # None
    /\ last_call.to_e # None
    /\ relations # <<>>

\* C12, as stated: add_relation with a registered type whose from_type or
\* to_type differs from the type of the entity passed raises an error and
\* leaves the relation list unchanged.
C12_MismatchRejected ==
    (/\ last_call.called
     /\ last_call.method = "add_relation"
     /\ last_call.rel_type_id \in relation_types
     /\ last_call.from_e # None
     /\ last_call.to_e # None
     /\ \/ entities[last_call.from_e].type
              # RelationTypeDefs[last_call.rel_type_id].from_type
        \/ entities[last_call.to_e].type
              # RelationTypeDefs[last_call.rel_type_id].to_type) =>
        /\ last_call.raised # ""
        /\ relations = last_call.relations

\* the believes_in relations of a relation list that leave the faction
beliefs_of(r, faction) ==
    {k \in 1..Len(r) :
        r[k].from_entity = faction /\ r[k].relation_type = "believes_in"}

\* the events of a type that a graph holds
events_of(e, event_type) ==
    {i \in OfType(e, EVENT) : e[i].data.event_type = event_type}

\* C13: in every state the systems of the epochs reach, each Faction is the
\* source of at most one believes_in relation (genesis and adoption give one
\* to a faction that has none, conversion replaces the old one).
C13_OneBeliefPerFaction ==
    \A f \in OfType(entities, FACTION) : Cardinality(beliefs_of(relations, f)) <= 1

\* the entities of a type that take part in an event
participants_of(e, r, event, type) ==
    {x \in OfType(e, type) :
        \E k \in 1..Len(r) : r[k].from_entity = x /\ r[k].to_entity = event}

\* C13 witness: process_beliefs has just converted a faction that believed
\* already; its one believes_in relation now leads to the belief it took.
C13_Witness ==
    /\ last_call.called
    /\ last_call.method = "process_beliefs"
    /\ \E ev \in events_of(entities, "religion_conversion") :
          /\ ev \notin DOMAIN last_call.entities
          /\ \E f \in participants_of(entities, relations, ev, FACTION) :
                /\ Cardinality(beliefs_of(relations, f)) = 1
                /\ get_belief(relations, f)
                       \in participants_of(entities, relations, ev, BELIEF)

\* the beliefs the last system call created
new_beliefs == OfType(entities, BELIEF) \ DOMAIN last_call.entities

\* C14, as stated: a process_beliefs that starts with n < 2 beliefs and k
\* eligible factions (a belief template is registered) creates exactly
\* min(k, 2 - n) beliefs, each linked from a faction by a believes_in
\* relation; with n >= 2 it creates none.
C14_GenesisCount ==
    (last_call.called /\ last_call.method = "process_beliefs"
        /\ DOMAIN BeliefTemplates # {}) =>
       LET n == Cardinality(OfType(last_call.entities, BELIEF))
           k == Cardinality(genesis_candidates(
                    [e |-> last_call.entities, r |-> last_call.relations]))
       IN IF n >= 2 THEN new_beliefs = {}
          ELSE /\ Cardinality(new_beliefs) = Min({k, 2 - n})
               /\ \A b \in new_beliefs :
                     \E f \in OfType(entities, FACTION) :
                        \E i \in beliefs_of(relations, f) : relations[i].to_entity = b

\* the global wars the last system call created
new_global_wars == OfType(entities, GLOBAL_CONFLICT) \ DOMAIN last_call.entities

\* the beliefs with an involved_in relation to a global war
beliefs_involved(g) ==
    {b \in OfType(entities, BELIEF) :
        \E k \in 1..Len(relations) :
           /\ relations[k].from_entity = b
           /\ relations[k].to_entity = g
           /\ relations[k].relation_type = "involved_in"}

\* C15: at most one GlobalConflict is active at any time; a religious war is
\* spawned only from a graph with at least two beliefs and no active global
\* war, and it is linked to two distinct Belief entities.
C15_OneGlobalWar ==
    /\ Len(active_global_wars(entities)) <= 1
    /\ \A g \in OfType(entities, GLOBAL_CONFLICT) :
          /\ entities[g].data.initiator_belief # entities[g].data.target_belief
          /\ beliefs_involved(g) = {entities[g].data.initiator_belief,
                                    entities[g].data.target_belief}
    /\ (last_call.called /\ new_global_wars # {}) =>
          /\ last_call.method = "spawn_religious_wars"
          /\ Cardinality(OfType(last_call.entities, BELIEF)) >= 2
          /\ active_global_wars(last_call.entities) = <<>>

\* C15 witness: the last call spawned a religious war between two beliefs.
C15_Witness ==
    /\ last_call.called
    /\ \E g \in new_global_wars :
          /\ entities[g].data.status = "active"
          /\ Cardinality(beliefs_involved(g)) = 2

\* the resident factions of a location that count against its Faction limit
live_factions(e, loc) ==
    {f \in OfType(e, FACTION) :
        /\ e[f].parent_id = loc
        /\ {"inactive", "absorbed", "dead"} \cap e[f].tags = {}}

\* C16: after process_overcrowding a Location carries the tag overcrowded
\* exactly when, as the call examined it, more live factions resided in it
\* than its Faction limit allows; a location at or under the limit has lost
\* the tag.
C16_OvercrowdedIffOverLimit ==
    (last_call.called /\ last_call.method = "process_overcrowding") =>
       \A loc \in OfType(last_call.entities, LOCATION) :
          "overcrowded" \in entities[loc].tags
             <=> Cardinality(live_factions(last_call.entities, loc))
                    > overcrowding_limit(last_call.entities, loc)

\* C16 witness: a location that was tagged is back under its limit and the
\* call has taken the tag away.
C16_Witness ==
    /\ last_call.called
    /\ last_call.method = "process_overcrowding"
    /\ \E loc \in OfType(last_call.entities, LOCATION) :
          /\ "overcrowded" \in last_call.entities[loc].tags
          /\ "overcrowded" \notin entities[loc].tags
          /\ Cardinality(live_factions(entities, loc))
                <= overcrowding_limit(entities, loc)

\* the forbidden_neighbors of the biome of a cell; none for an unregistered one
forbidden_of(biome_id) ==
    IF Registered(BiomeTemplates, biome_id)
    THEN BiomeTemplates[biome_id].forbidden_neighbors ELSE {}

\* C17, as stated: in the layout generate_layout returns, no occupied
\* 4-neighbour of an occupied cell holds a biome that the cell's biome lists
\* in forbidden_neighbors, whatever the placement order and also for
\* fallback placements.
C17_ForbiddenNeighborsRespected ==
    layout.phase = "returned" =>
       \A c \in DOMAIN layout.cells :
          \A nb \in neighbors(layout, c) :
             cell_biome(layout, nb) = ""
                \/ cell_biome(layout, nb) \notin forbidden_of(layout.cells[c])

written == {c \in DOMAIN layout.cells : layout'.cells[c] # layout.cells[c]}

\* C19, one step: a cell is written once, with a pool biome that passes the
\* constraint check on the layout as it is at that moment, or with the
\* default biome when no pool biome passed (in step 2: none passes on that
\* cell; in step 1: the biome being placed passes on no free cell).
C19_StepChecked ==
    (layout.phase \in {"guaranteed", "fill"}) =>
       \A c \in written :
          /\ layout.cells[c] = ""
          /\ \/ /\ c \notin layout'.unchecked
                /\ layout'.cells[c] \in layout.pool
                /\ can_place_biome(layout'.cells[c], c, layout)
             \/ /\ c \in layout'.unchecked
                /\ layout'.cells[c] = layout.fallback
                /\ IF layout.phase = "fill"
                   THEN \A b \in layout.pool : ~can_place_biome(b, c, layout)
                   ELSE \E b \in layout.todo : passing_cells(layout, b) = {}

\* C19, the result: no cell of a grid with width <= 4 or height <= 4 is cut,
\* the call cannot stop before it returns, and the layout it returns has no
\* free cell: each cell holds a pool biome or the default biome.
C19_NoFreeCell ==
    /\ (layout.phase # "none" /\ (layout.width <= 4 \/ layout.height <= 4)) =>
          DOMAIN layout.cells = Coords(layout.width, layout.height)
    /\ layout.phase \in {"guaranteed", "fill"} => ENABLED NextLayout
    /\ layout.phase = "returned" =>
          /\ free_cells(layout) = {}
          /\ layout.placed = layout.cells_to_fill
          /\ \A c \in DOMAIN layout.cells :
                IF c \in layout.unchecked THEN layout.cells[c] = layout.fallback
                ELSE layout.cells[c] \in layout.pool

C20_AddCommutativeAssociative ==
    vecs.phase = "added" =>
        /\ vecs.ab.x = "" /\ vecs.ba.x = ""
        /\ vecs.ab_c.x = "" /\ vecs.a_bc.x = ""
        /\ vecs.ab = vecs.ba
        /\ vecs.ab_c = vecs.a_bc
        /\ vecs.ab.v.taboo = vecs.a.taboo \cup vecs.b.taboo
        /\ vecs.ab.v.revered = vecs.a.revered \cup vecs.b.revered
        /\ vecs.aa.x = "" =>
              /\ vecs.aa.v.taboo = vecs.a.taboo
              /\ vecs.aa.v.revered = vecs.a.revered

\* C21, as stated: the distance of every CultureVector to itself is 0, for
\* any axes, any taboo and revered sets (a value may be both taboo and
\* revered) and any weights.
C21_SelfDistanceZero ==
    vecs.phase = "measured" => vecs.a_to_a = 0

\* the Event entities registered in the current epoch, in registration order
events_registered == SortedSeq({i \in DOMAIN entities :
    entities[i].type = EVENT /\ entities[i].created_at = age})

\* C22, as stated: the list evolve returns for an epoch is exactly the
\* sequence of Event entities registered during the epoch, in the order of
\* their registration; it holds no entity of another type and omits no
\* registered event.
C22_ReturnedEventsExact ==
    pc = "write_events" => all_events = events_registered

ConflictOutcomes == {"truce", "absorption", "flight", "new_settlement", "destruction"}

RaidOutcomes == {"raid_success_loot", "raid_success_plunder", "raid_repelled"}

\* a faction that lives in loc and is not absorbed, dead, inactive or fled
active_in(e, f, loc) ==
    /\ f \in DOMAIN e
    /\ e[f].type = FACTION
    /\ e[f].parent_id = loc
    /\ e[f].tags \cap {"absorbed", "dead", "inactive", "fled"} = {}

\* the political conflicts of the current epoch whose participants were
\* co-resident active factions when resolve_conflicts started
political_to_resolve ==
    {c \in active_conflicts(last_call.entities) :
        /\ last_call.entities[c].created_at = age
        /\ ~last_call.entities[c].data.is_raid
        /\ last_call.entities[c].data.reason_id \notin {"civil_war", "survival"}
        /\ \A k \in 1..Len(last_call.entities[c].data.participants) :
              active_in(last_call.entities, last_call.entities[c].data.participants[k],
                        last_call.entities[c].data.location_id)}

\* C23, as stated: a resolved conflict has one of the defined outcomes (the
\* five kinds for a non-raid conflict, the three raid kinds for a raid),
\* status resolved and an outcome are always present together, and a
\* political conflict between two co-resident active factions spawned in an
\* epoch is resolved by the resolution pass of that epoch.
C23_ResolvedWithOutcome ==
    /\ \A c \in OfType(entities, CONFLICT) : entities[c].has_data =>
          /\ (entities[c].data.status = "resolved") <=> (entities[c].data.outcome # "")
          /\ entities[c].data.status = "resolved" =>
                entities[c].data.outcome \in
                   (IF entities[c].data.is_raid THEN RaidOutcomes ELSE ConflictOutcomes)
    /\ (last_call.called /\ last_call.method = "resolve_conflicts"
                          /\ last_call.raised = "") =>
          \A c \in political_to_resolve : entities[c].data.status = "resolved"

\* the location the C24 precedence names for the last register_event call
expected_location ==
    LET e == last_call.entities
        primary == last_call.primary_entity
        secondary == SelectSeq(last_call.secondary_entities,
                               LAMBDA x : e[x].type = LOCATION)
    IN IF last_call.explicit # None THEN last_call.explicit
       ELSE IF primary # None /\ e[primary].type = LOCATION THEN primary
       ELSE IF /\ primary # None
               /\ e[primary].parent_id # None
               /\ e[primary].parent_id \in DOMAIN e
               /\ e[e[primary].parent_id].type = LOCATION
       THEN e[primary].parent_id
       ELSE IF secondary # <<>> THEN secondary[1]
       ELSE None

\* C24: register_event adds exactly one entity, an Event whose created_at is
\* the given epoch, and its data.location_id is the explicit location if one
\* was given, else the primary if it is a Location, else the primary's
\* parent if that is a Location, else the first secondary entity that is a
\* Location, else unset.
C24_EventLocation ==
    (last_call.called /\ last_call.method = "register_event") =>
        /\ DOMAIN entities = DOMAIN last_call.entities \cup {last_call.event}
        /\ last_call.event \notin DOMAIN last_call.entities
        /\ \A i \in DOMAIN last_call.entities : entities[i] = last_call.entities[i]
        /\ entities[last_call.event].type = EVENT
        /\ entities[last_call.event].created_at = last_call.at_age
        /\ entities[last_call.event].data.location_id = expected_location

\* C24 witness: no explicit location, a primary that is neither a Location
\* nor the child of one, and a Location that is the second secondary entity
C24_Witness ==
    /\ last_call.called
    /\ last_call.method = "register_event"
    /\ last_call.explicit = None
    /\ last_call.primary_entity # None
    /\ entities[last_call.primary_entity].type = BIOME
    /\ Len(last_call.secondary_entities) = 2
    /\ entities[last_call.secondary_entities[1]].type = FACTION
    /\ entities[last_call.secondary_entities[2]].type = LOCATION
    /\ entities[last_call.event].data.location_id = last_call.secondary_entities[2]
    /\ entities[last_call.secondary_entities[1]].parent_id # last_call.secondary_entities[2]

\* a faction that is not absorbed, dead, inactive or fled
active_faction(e, f) ==
    /\ f \in DOMAIN e
    /\ e[f].type = FACTION
    /\ e[f].tags \cap {"absorbed", "dead", "inactive", "fled"} = {}

\* C25, as stated: when resolve_conflicts has run, every raid that was active
\* at its start and whose attacker and victim are active factions is
\* resolved with one of the outcomes raid_success_loot, raid_success_plunder
\* or raid_repelled; it is not aborted.
C25_RaidResolved ==
    (last_resolve.called /\ pc = "sync_spatial" /\ exc = "") =>
        \A c \in last_resolve.active :
            (/\ entities[c].data.is_raid
             /\ \A k \in 1..Len(entities[c].data.participants) :
                   active_faction(entities, entities[c].data.participants[k]))
            => /\ entities[c].data.status = "resolved"
               /\ entities[c].data.outcome \in RaidOutcomes

absorbed_under(loser, winner) ==
    /\ "absorbed" \in entities[loser].tags
    /\ entities[loser].parent_id = winner
    /\ get_children(entities, loser, "") = <<>>
    /\ \E k \in 1..Len(relations) :
          /\ relations[k].from_entity = loser
          /\ relations[k].to_entity = winner
          /\ relations[k].relation_type = "absorbed_by"

\* C26, as stated: when a conflict resolves as absorption, one participant is the winner
\* and every other (the loser) is tagged absorbed, has the winner as its
\* parent_id, keeps no child of its own, and has an absorbed_by relation to
\* the winner.  Stated right after a resolve_conflicts pass over one conflict.
C26_AbsorptionReparents ==
    (/\ last_resolve.called /\ pc = "sync_spatial" /\ exc = ""
     /\ Cardinality(last_resolve.active) = 1) =>
        \A c \in last_resolve.active :
            entities[c].data.outcome = "absorption" =>
                \E winner \in Range(entities[c].data.participants) :
                    \A loser \in Range(entities[c].data.participants) \ {winner} :
                        absorbed_under(loser, winner)


living_leader(e, r, f) ==
    \E k \in 1..Len(r) :
        /\ r[k].to_entity = f
        /\ r[k].relation_type = "leads"
        /\ e[r[k].from_entity].type = CHARACTER
        /\ "dead" \notin e[r[k].from_entity].tags

led_factions(e) ==
    {f \in OfType(e, FACTION) : e[f].tags \cap {"absorbed", "dead", "inactive"} = {}}

after_ensure_leaders ==
    \/ pc = "religious_wars"
    \/ pc = "engine" /\ last_call.called /\ last_call.method = "ensure_leaders"

\* C27, as stated: right after the leader-assignment step of an epoch, every active
\* faction (not absorbed, not dead, not inactive) is the target of a leads
\* relation from a Character that is not tagged dead.
C27_ActiveFactionsLed ==
    (after_ensure_leaders /\ exc = "") =>
        \A f \in led_factions(entities) : living_leader(entities, relations, f)


civil_wars_spawned ==
    {c \in DOMAIN entities \ DOMAIN last_call.entities : entities[c].type = CONFLICT}

freed_factions ==
    {f \in OfType(last_call.entities, FACTION) :
        /\ "absorbed" \in last_call.entities[f].tags
        /\ "absorbed" \notin entities[f].tags}

co_located(e, f1, f2) ==
    /\ get_location_of(e, f1) # None
    /\ get_location_of(e, f1) = get_location_of(e, f2)

\* C28, as stated: _spawn_civil_wars creates conflicts only at epochs divisible by 20,
\* each an active civil_war with tension 5.0; a faction loses its absorbed
\* tag only by becoming a rebel together with the creation of such a conflict
\* between it and its absorber, both being in the same location.
C28_CivilWarFreesAbsorbed ==
    (/\ pc = "engine" /\ last_call.called
     /\ last_call.method = "spawn_civil_wars") =>
        /\ civil_wars_spawned # {} => age % CivilWarPeriod = 0
        /\ \A c \in civil_wars_spawned :
              /\ entities[c].data.reason_id = "civil_war"
              /\ entities[c].data.status = "active"
              /\ entities[c].data.cultural_tension = CivilWarTension
        /\ \A f \in freed_factions :
              /\ "rebel" \in entities[f].tags
              /\ co_located(last_call.entities, f, last_call.entities[f].data.absorbed_by)
              /\ \E c \in civil_wars_spawned :
                    entities[c].data.participants =
                        <<f, last_call.entities[f].data.absorbed_by>>


DisputeReasons == {"res_conflict", "power_struggle", "ideological"}

at_war(e, r, f1, f2) ==
    LET b1 == get_belief(r, f1)
        b2 == get_belief(r, f2)
    IN /\ b1 # None
       /\ b2 # None
       /\ \E g \in Range(active_global_wars(e)) :
             \/ e[g].data.initiator_belief = b1 /\ e[g].data.target_belief = b2
             \/ e[g].data.initiator_belief = b2 /\ e[g].data.target_belief = b1

political_spawned ==
    {c \in DOMAIN entities \ DOMAIN last_call.entities : entities[c].type = CONFLICT}

\* C29, as stated: a conflict spawned by _spawn_political_conflicts has the reason
\* religious_crusade or a part_of_global link only when an active global war
\* exists between the beliefs of its two participants; for every other pair
\* the reason is res_conflict, power_struggle or ideological.
C29_CrusadeNeedsGlobalWar ==
    (/\ pc = "engine" /\ last_call.called
     /\ last_call.method = "spawn_political_conflicts") =>
        \A c \in political_spawned :
            \/ at_war(last_call.entities, last_call.relations,
                      entities[c].data.participants[1],
                      entities[c].data.participants[2])
            \/ /\ entities[c].data.reason_id \in DisputeReasons
               /\ \A k \in 1..Len(relations) :
                     ~(/\ relations[k].from_entity = c
                       /\ relations[k].relation_type = "part_of_global")


\* C30: a conflict created by _spawn_political_conflicts is the only active
\* conflict between its two factions: the pass creates none for a pair that
\* already has an active conflict, from this pass or from an earlier one.
C30_OneActiveConflictPerPair ==
    (/\ pc = "engine" /\ last_call.called
     /\ last_call.method = "spawn_political_conflicts") =>
        \A c \in political_spawned :
            \A d \in active_conflicts(entities) \ {c} :
                Range(entities[d].data.participants)
                    # Range(entities[c].data.participants)

\* C30 witness: the pass created a conflict while a co-resident pair already
\* had an active one.
C30_Witness ==
    /\ pc = "engine" /\ last_call.called
    /\ last_call.method = "spawn_political_conflicts"
    /\ political_spawned # {}
    /\ \E d \in active_conflicts(last_call.entities) :
          \E loc \in OfType(last_call.entities, LOCATION) :
             Range(last_call.entities[d].data.participants)
                 \subseteq Range(political_factions(last_call.entities, loc))


\* the entities a step added
added(type) == {i \in DOMAIN entities' \ DOMAIN entities : entities'[i].type = type}

\* C31, as stated: when the boss roll of the bosses step succeeds at a
\* location whose biome a boss archetype allows, the step adds one
\* Faction-kind entity tagged boss and hostile under a location, one
\* boss_spawn event and one active Conflict per faction resident there, and
\* the epoch continues with the following step.
C31_BossSpawned ==
    [][(pc = "bosses" /\ rolls' = rolls + 1) =>
          /\ exc' = ""
          /\ pc' = NextStep("bosses", age)
          /\ \E boss \in added(FACTION) :
                /\ added(FACTION) = {boss}
                /\ {"boss", "hostile"} \subseteq entities'[boss].tags
                /\ get_entity(entities', entities'[boss].parent_id) # None
                /\ entities'[entities'[boss].parent_id].type = LOCATION
                /\ Cardinality({ev \in added(EVENT) :
                                   entities'[ev].data.event_type = "boss_spawn"}) = 1
                /\ \A f \in Range(get_children(entities, entities'[boss].parent_id,
                                               FACTION)) :
                      Cardinality({c \in added(CONFLICT) :
                                      /\ entities'[c].data.status = "active"
                                      /\ f \in Range(entities'[c].data.participants)}) = 1]_vars


\* the events process_transformations registered for the location
transformed_events(loc) ==
    {ev \in DOMAIN entities \ DOMAIN last_call.entities :
        /\ entities[ev].type = EVENT
        /\ entities[ev].data.event_type \in {"nature_reclaim", "transformation"}
        /\ entities[ev].data.location_id = loc}

\* C32, as stated: one process_transformations call applies at most one rule
\* to any location, the retag toward wild counted as one.
C32_OneTransformationPerLocation ==
    (/\ pc = "engine" /\ last_call.called
     /\ last_call.method = "process_transformations") =>
        \A loc \in OfType(entities, LOCATION) :
            Cardinality(transformed_events(loc)) <= 1


(***************************************************************************)
(* Expansion: where a branch is founded.                                   *)
(***************************************************************************)
branches == OfType(entities, FACTION) \ DOMAIN last_call.entities

\* the faction a branch splintered from, by its splintered_from relation
founders(branch) ==
    {relations[k].to_entity : k \in {i \in 1..Len(relations) :
        /\ relations[i].from_entity = branch
        /\ relations[i].relation_type = "splintered_from"}}

linked(from, to, relation_type) ==
    \E k \in 1..Len(relations) :
        /\ relations[k].from_entity = from
        /\ relations[k].to_entity = to
        /\ relations[k].relation_type = relation_type

\* the branch sits in another location of the founder's biome
branch_in_biome(branch, founder) ==
    LET target == entities[branch].parent_id
        home == get_location_of(last_call.entities, founder)
    IN /\ target \in OfType(last_call.entities, LOCATION)
       /\ home # None
       /\ target # home
       /\ get_biome(last_call.entities, target) # None
       /\ get_biome(last_call.entities, target) = get_biome(last_call.entities, home)

\* the target had fewer resident factions than its Faction limit before the call
spare_capacity(target) ==
    Len(get_children(last_call.entities, target, FACTION))
        < overcrowding_limit(last_call.entities, target)

C33_BranchLinked ==
    (last_call.called /\ last_call.method = "process_expansions" /\ exc = "")
        => \A branch \in branches :
              /\ Cardinality(founders(branch)) = 1
              /\ \A founder \in founders(branch) :
                    /\ branch_in_biome(branch, founder)
                    /\ linked(founder, entities[branch].parent_id, "expanded_to")

\* C33, as stated: a branch founded by process_expansions sits in a location
\* of the founder's biome, other than the founder's own, that had fewer
\* resident factions than its Faction limit before the call, and is linked by
\* expanded_to (founder -> target) and splintered_from (branch -> founder).
C33_BranchWhereRoom ==
    (last_call.called /\ last_call.method = "process_expansions" /\ exc = "")
        => \A branch \in branches :
              /\ Cardinality(founders(branch)) = 1
              /\ \A founder \in founders(branch) :
                    /\ branch_in_biome(branch, founder)
                    /\ spare_capacity(entities[branch].parent_id)
                    /\ linked(founder, entities[branch].parent_id, "expanded_to")


(***************************************************************************)
(* Biome capacity.                                                         *)
(***************************************************************************)
locations_under(e, biome) == {l \in OfType(e, LOCATION) : e[l].parent_id = biome}

\* C34: a biome with a registered template never holds more locations than
\* the template's capacity, whatever discoveries and new settlements the
\* calls attempted.
C34_BiomeCapacityKept ==
    \A biome \in OfType(entities, BIOME) :
        Registered(BiomeTemplates, entities[biome].definition_id)
            => Cardinality(locations_under(entities, biome))
                  <= BiomeTemplates[entities[biome].definition_id].capacity

\* a biome filled to capacity by a discovery, where the loser of a later
\* conflict could not settle and took to the woods
C34_Witness ==
    /\ last_call.called
    /\ last_call.method = "resolve_conflicts"
    /\ \E biome \in OfType(entities, BIOME) :
          /\ Cardinality(locations_under(last_call.entities, biome))
                = BiomeTemplates[entities[biome].definition_id].capacity
          /\ \E l \in locations_under(entities, biome) : "discovered" \in entities[l].tags
          /\ \E f \in OfType(entities, FACTION) :
                /\ "wandering_bandits" \in entities[f].tags
                /\ "wandering_bandits" \notin last_call.entities[f].tags
                /\ get_biome(entities, get_location_of(entities, f)) = biome


(***************************************************************************)
(* World generation.                                                       *)
(***************************************************************************)
\* C35, as stated: for every template capacity >= 1 generation completes and
\* leaves 2 or 3 locations under each biome, never more than the capacity.
C35_TwoOrThreeLocations ==
    pc \in {"generated", "raised"}
        => /\ pc = "generated"
           /\ \A biome \in OfType(entities, BIOME) :
                 /\ Cardinality(locations_under(entities, biome)) \in {2, 3}
                 /\ Cardinality(locations_under(entities, biome))
                       <= entities[biome].capacity

\* the same for the capacities of at least 2
C35_TwoOrThreeFromTwo ==
    (pc \in {"generated", "raised"}
        /\ \A biome \in OfType(entities, BIOME) : entities[biome].capacity >= 2)
        => /\ pc = "generated"
           /\ \A biome \in OfType(entities, BIOME) :
                 /\ Cardinality(locations_under(entities, biome)) \in {2, 3}
                 /\ Cardinality(locations_under(entities, biome))
                       <= entities[biome].capacity


relations_from(child, relation_type) ==
    {k \in 1..Len(relations) :
        /\ relations[k].from_entity = child
        /\ relations[k].relation_type = relation_type}

\* the container relation of a child of the given type
container_relation(type) == IF type = RESOURCE THEN "located_in" ELSE "faction_located_in"

located_children(type) ==
    {c \in OfType(entities, type) :
        /\ entities[c].parent_id # None
        /\ entities[entities[c].parent_id].type = LOCATION}

\* C36: in a generated world every resource and every faction of a location
\* has exactly one container relation (located_in, faction_located_in), to its
\* parent; there is no other relation; a location holds at most limits.Resource
\* resources and at most one faction.
C36_GeneratedStructure ==
    pc = "generated"
        => /\ \A type \in {RESOURCE, FACTION} :
                 \A c \in located_children(type) :
                    /\ Cardinality(relations_from(c, container_relation(type))) = 1
                    /\ \A k \in relations_from(c, container_relation(type)) :
                          relations[k].to_entity = entities[c].parent_id
           /\ \A k \in 1..Len(relations) :
                 \E type \in {RESOURCE, FACTION} :
                    /\ relations[k].from_entity \in located_children(type)
                    /\ relations[k].relation_type = container_relation(type)
           /\ \A loc \in OfType(entities, LOCATION) :
                 /\ Cardinality({c \in OfType(entities, RESOURCE) :
                                    entities[c].parent_id = loc})
                       <= template_limit(entities[loc].definition_id, "Resource", 1)
                 /\ Cardinality({c \in OfType(entities, FACTION) :
                                    entities[c].parent_id = loc}) <= 1

\* a generated world with a settled location that also holds a resource
C36_Witness ==
    /\ pc = "generated"
    /\ \E loc \in OfType(entities, LOCATION) :
          /\ \E c \in OfType(entities, RESOURCE) : entities[c].parent_id = loc
          /\ \E c \in OfType(entities, FACTION) : entities[c].parent_id = loc
    /\ Len(relations) >= 3


(***************************************************************************)
(* Resources.                                                              *)
(***************************************************************************)
exhausted(e) ==
    {r \in OfType(e, RESOURCE) :
        ~is_renewable(e[r].definition_id) /\ "depleted" \in e[r].tags}

regrown == {r \in OfType(entities, RESOURCE) :
               "depleted" \in entities[r].tags /\ "depleted" \notin entities'[r].tags}

\* C37: a depleted non-renewable resource is tagged depleted and inactive and
\* keeps both tags over every step; a resource loses depleted only in an epoch
\* divisible by 5 and only if it was not inactive.
C37_ExhaustedForGood ==
    [][/\ \A r \in exhausted(entities) :
             /\ {"depleted", "inactive"} \subseteq entities[r].tags
             /\ {"depleted", "inactive"} \subseteq entities'[r].tags
       /\ \A r \in exhausted(entities') : "inactive" \in entities'[r].tags
       /\ \A r \in regrown :
             /\ age' % 5 = 0
             /\ "inactive" \notin entities[r].tags]_vars

\* a regrowth that brought a renewable resource back and passed over an
\* exhausted one
C37_Witness ==
    /\ last_call.called
    /\ last_call.method = "process_resource_regrowth"
    /\ exhausted(last_call.entities) # {}
    /\ exhausted(last_call.entities) \subseteq exhausted(entities)
    /\ \E r \in OfType(entities, RESOURCE) :
          /\ "depleted" \in last_call.entities[r].tags
          /\ "depleted" \notin entities[r].tags


(***************************************************************************)
(* The structural relation of a faction and its parent_id.                 *)
(***************************************************************************)
bases(f) ==
    {relations[k].to_entity : k \in relations_from(f, "faction_located_in")}

\* C38, as stated: every faction whose parent_id names a location has a
\* faction_located_in relation to that location and to no other.
C38_BaseIsParent ==
    \A f \in OfType(entities, FACTION) :
        (entities[f].parent_id # None
            /\ entities[f].parent_id \in OfType(entities, LOCATION))
        => bases(f) = {entities[f].parent_id}


(***************************************************************************)
(* The dead do not fight.                                                  *)
(***************************************************************************)
new_conflicts == OfType(entities, CONFLICT) \ DOMAIN last_call.entities

\* C39, as stated: no participant of a conflict a call created was tagged
\* dead or inactive when the call began.
C39_NoDeadParticipant ==
    last_call.called
        => \A c \in new_conflicts :
              \A k \in 1..Len(entities[c].data.participants) :
                 entities[c].data.participants[k] \in DOMAIN last_call.entities
                    => last_call.entities[entities[c].data.participants[k]].tags
                          \cap {"dead", "inactive"} = {}


(***************************************************************************)
(* Concurrent runs.                                                        *)
(***************************************************************************)
executing == {c \in Callers : threads[c].at \in InBody \cup {"finally", "finally_raising"}}

\* when no call is past the test of is_running and before the end of its
\* finally block, is_running is false
C40_IdleWhenNoRun ==
    (\A c \in Callers : threads[c].at \notin InBody \cup {"set", "finally", "finally_raising"})
        => ~is_running

====
